---- MODULE Spec2Model ----
(***************************************************************************)
(* Verification model of the LibertyLM client-side security utilities:     *)
(*   - SecureStorage (src/lib/security.ts, API-key encryption helper),     *)
(*   - ApiKeyManager / VisualPlayground.generateDiagram (key storage and   *)
(*     the analyze-codebase request),                                      *)
(*   - the useSecurity hook and the SessionMonitor it drives.               *)
(*                                                                         *)
(* Strings are sequences of UTF-16 code units (integers), byte arrays are  *)
(* sequences of integers 0..255.                                           *)
(***************************************************************************)
EXTENDS Integers, Sequences, FiniteSets, TLC

\* ------------------------------------------------------------------------
\* Results of operations that may throw: ok = FALSE stands for the exception.
\* ------------------------------------------------------------------------
Ok(v) == [ok |-> TRUE, val |-> v]

Err == [ok |-> FALSE, val |-> <<>>]

\* Body(value), with value computed once.
With(value, Body(_)) == CHOOSE r \in {Body(v) : v \in {value}} : TRUE

\* Uint8Array.prototype.slice(from, to) with 0-based, end-exclusive indices.
Slice(a, from, to) == SubSeq(a, from + 1, IF to < Len(a) THEN to ELSE Len(a))

\* Bitwise exclusive or of two non-negative integers.
RECURSIVE Xor(_, _)
Xor(a, b) ==
  IF a = 0 THEN b
  ELSE IF b = 0 THEN a
  ELSE (((a % 2) + (b % 2)) % 2) + 2 * Xor(a \div 2, b \div 2)

\* ------------------------------------------------------------------------
\* TextEncoder.encode / TextDecoder.decode (WHATWG Encoding, UTF-8)
\* ------------------------------------------------------------------------
IsHighSurrogate(c) == c >= 55296 /\ c <= 56319

IsLowSurrogate(c) == c >= 56320 /\ c <= 57343

\* UTF-8 bytes of one Unicode scalar value.
Utf8(cp) ==
  IF cp < 128 THEN <<cp>>
  ELSE IF cp < 2048 THEN <<192 + cp \div 64, 128 + (cp % 64)>>
  ELSE IF cp < 65536
    THEN <<224 + cp \div 4096, 128 + ((cp \div 64) % 64), 128 + (cp % 64)>>
  ELSE <<240 + cp \div 262144, 128 + ((cp \div 4096) % 64),
         128 + ((cp \div 64) % 64), 128 + (cp % 64)>>

\* The concatenation of parts[lo], ..., parts[hi].
RECURSIVE FlattenRange(_, _, _)
FlattenRange(parts, lo, hi) ==
  IF lo > hi THEN <<>>
  ELSE IF lo = hi THEN parts[lo]
  ELSE LET mid == (lo + hi) \div 2 IN
    FlattenRange(parts, lo, mid) \o FlattenRange(parts, mid + 1, hi)

Flatten(parts) == FlattenRange(parts, 1, Len(parts))

\* The bytes encoder.encode emits for the code unit at position i of s: the
\* string is first converted to a USVString (a surrogate that is not part of
\* a pair becomes U+FFFD), then encoded as UTF-8.  A low surrogate that
\* follows a high surrogate is encoded with it.
EncodeAt(s, i) ==
  LET c == s[i] IN
  IF IsHighSurrogate(c)
    THEN (IF i < Len(s) /\ IsLowSurrogate(s[i + 1])
            THEN Utf8(65536 + (c - 55296) * 1024 + (s[i + 1] - 56320))
            ELSE Utf8(65533))
  ELSE IF IsLowSurrogate(c)
    THEN (IF i > 1 /\ IsHighSurrogate(s[i - 1]) THEN <<>> ELSE Utf8(65533))
  ELSE Utf8(c)

\* encoder.encode(s) of a TextEncoder.
TextEncode(s) == Flatten([i \in 1..Len(s) |-> EncodeAt(s, i)])

\* UTF-16 code units of one code point.
Utf16(cp) ==
  IF cp < 65536 THEN <<cp>>
  ELSE <<55296 + (cp - 65536) \div 1024, 56320 + ((cp - 65536) % 1024)>>

IsCont(b) == b >= 128 /\ b <= 191

\* Number of continuation bytes a lead byte asks for (0: ASCII, -1: invalid).
Utf8Needed(b) ==
  IF b < 128 THEN 0
  ELSE IF b >= 194 /\ b <= 223 THEN 1
  ELSE IF b >= 224 /\ b <= 239 THEN 2
  ELSE IF b >= 240 /\ b <= 244 THEN 3
  ELSE -1

\* Range allowed for the first continuation byte after lead byte b.
Utf8Lower(b) == IF b = 224 THEN 160 ELSE IF b = 240 THEN 144 ELSE 128

Utf8Upper(b) == IF b = 237 THEN 159 ELSE IF b = 244 THEN 143 ELSE 191

\* Whether byte b may stand k bytes after the lead byte lead.
ContinuesAt(lead, k, b) ==
  IF k = 1 THEN b >= Utf8Lower(lead) /\ b <= Utf8Upper(lead) ELSE IsCont(b)

\* Number of bytes after the lead byte at position i that continue its
\* sequence validly (at most the number the lead byte asks for).
RunAt(bs, i) ==
  LET need == Utf8Needed(bs[i])
      good(k) == i + k <= Len(bs) /\ ContinuesAt(bs[i], k, bs[i + k])
  IN IF need < 1 \/ ~good(1) THEN 0
     ELSE IF need < 2 \/ ~good(2) THEN 1
     ELSE IF need < 3 \/ ~good(3) THEN 2
     ELSE 3

\* Whether the byte at position i was consumed by the sequence of an earlier
\* lead byte (lead bytes are never continuation bytes, so a lead byte always
\* starts a sequence).
ConsumedAt(bs, i) ==
  \E k \in 1..3 : i - k >= 1 /\ Utf8Needed(bs[i - k]) >= k /\ RunAt(bs, i - k) >= k

Utf8Value(bs, i, need) ==
  IF need = 1 THEN (bs[i] - 192) * 64 + (bs[i + 1] - 128)
  ELSE IF need = 2
    THEN (bs[i] - 224) * 4096 + (bs[i + 1] - 128) * 64 + (bs[i + 2] - 128)
  ELSE (bs[i] - 240) * 262144 + (bs[i + 1] - 128) * 4096
         + (bs[i + 2] - 128) * 64 + (bs[i + 3] - 128)

\* The code units the UTF-8 decoder (replacement mode, fatal: false) emits
\* when it reaches position i.
DecodeAt(bs, i) ==
  LET need == Utf8Needed(bs[i]) IN
  IF ConsumedAt(bs, i) THEN <<>>
  ELSE IF need = 0 THEN <<bs[i]>>
  ELSE IF need = -1 THEN <<65533>>
  ELSE IF RunAt(bs, i) = need THEN Utf16(Utf8Value(bs, i, need))
  ELSE <<65533>>

Utf8Decode(bs) == Flatten([i \in 1..Len(bs) |-> DecodeAt(bs, i)])

\* new TextDecoder().decode(bytes): ignoreBOM defaults to false, so a leading
\* byte order mark EF BB BF is consumed and not part of the output.
TextDecode(bs) ==
  IF Len(bs) >= 3 /\ bs[1] = 239 /\ bs[2] = 187 /\ bs[3] = 191
    THEN Utf8Decode(SubSeq(bs, 4, Len(bs)))
    ELSE Utf8Decode(bs)

\* ------------------------------------------------------------------------
\* btoa / atob (HTML forgiving-base64)
\* ------------------------------------------------------------------------
\* The base64 character (code unit) of a 6-bit value.
B64Char(v) ==
  IF v < 26 THEN 65 + v
  ELSE IF v < 52 THEN 97 + (v - 26)
  ELSE IF v < 62 THEN 48 + (v - 52)
  ELSE IF v = 62 THEN 43
  ELSE 47

\* The 6-bit value of a base64 character, -1 for any other character.
B64Val(c) ==
  IF c >= 65 /\ c <= 90 THEN c - 65
  ELSE IF c >= 97 /\ c <= 122 THEN c - 97 + 26
  ELSE IF c >= 48 /\ c <= 57 THEN c - 48 + 52
  ELSE IF c = 43 THEN 62
  ELSE IF c = 47 THEN 63
  ELSE -1

\* Character j (1-based) of the base64 text of the bytes bs; a missing byte
\* counts as 0 and a position past the data is the padding character '='.
B64EncodeAt(bs, j) ==
  LET g == 3 * ((j - 1) \div 4)
      at(k) == IF g + k <= Len(bs) THEN bs[g + k] ELSE 0
      pos == (j - 1) % 4
  IN IF pos = 0 THEN B64Char(at(1) \div 4)
     ELSE IF pos = 1 THEN B64Char((at(1) % 4) * 16 + at(2) \div 16)
     ELSE IF pos = 2
       THEN (IF g + 2 <= Len(bs) THEN B64Char((at(2) % 16) * 4 + at(3) \div 64)
                                 ELSE 61)
     ELSE (IF g + 3 <= Len(bs) THEN B64Char(at(3) % 64) ELSE 61)

B64Encode(bs) ==
  LET n == 4 * ((Len(bs) + 2) \div 3) IN
  SubSeq([j \in 1..n |-> B64EncodeAt(bs, j)], 1, n)

\* btoa(s): throws InvalidCharacterError when s holds a code unit above 255.
Btoa(s) ==
  IF \E i \in 1..Len(s) : s[i] > 255 THEN Err ELSE Ok(B64Encode(s))

IsAsciiWhitespace(c) == c \in {9, 10, 12, 13, 32}

\* Byte j (1-based) decoded from the base64 characters cs (padding removed).
B64DecodeAt(cs, j) ==
  LET g == 4 * ((j - 1) \div 3)
      v(k) == B64Val(cs[g + k])
      pos == (j - 1) % 3
  IN IF pos = 0 THEN v(1) * 4 + v(2) \div 16
     ELSE IF pos = 1 THEN (v(2) % 16) * 16 + v(3) \div 4
     ELSE (v(3) % 4) * 64 + v(4)

\* Every 4 characters give 3 bytes; 2 or 3 remaining characters give 1 or 2
\* bytes, their unused low bits being discarded.
B64Decode(cs) ==
  LET n == 3 * (Len(cs) \div 4)
             + (IF Len(cs) % 4 = 0 THEN 0 ELSE (Len(cs) % 4) - 1)
  IN SubSeq([j \in 1..n |-> B64DecodeAt(cs, j)], 1, n)

\* atob(s): ASCII whitespace is removed, one or two trailing '=' are dropped
\* when the length is a multiple of 4, and the call throws when the rest has
\* length 1 mod 4 or holds a character outside the base64 alphabet.
Atob(s) ==
  LET a == SelectSeq(s, LAMBDA c : ~IsAsciiWhitespace(c))
      n == Len(a)
      b == IF n > 0 /\ n % 4 = 0 /\ a[n] = 61
             THEN (IF a[n - 1] = 61 THEN SubSeq(a, 1, n - 2)
                                    ELSE SubSeq(a, 1, n - 1))
             ELSE a
  IN IF Len(b) % 4 = 1 \/ \E i \in 1..Len(b) : B64Val(b[i]) = -1
       THEN Err
       ELSE Ok(B64Decode(b))

\* ------------------------------------------------------------------------
\* Web Crypto primitives used by SecureStorage.
\*
\* PBKDF2 and AES-GCM are modelled by their contract: both are deterministic
\* functions of their inputs; the derived key is the term built from the
\* password bytes, the salt and the fixed derivation parameters; AES-GCM is a
\* stream cipher (keystream xor plaintext) followed by a 16-byte tag computed
\* over the key, the iv and the ciphertext.  Mix is the stand-in for the
\* underlying hash: a weighted sum modulo the prime 32749 with non-zero
\* weights, so that two inputs differing in one byte always hash differently.
\* ------------------------------------------------------------------------
\* Sum over i in lo..hi of (bs[i] + 1) * (base * i + 1), modulo 32749.
RECURSIVE MixRange(_, _, _, _)
MixRange(bs, base, lo, hi) ==
  IF lo > hi THEN 0
  ELSE IF lo = hi THEN ((bs[lo] + 1) * ((base * lo + 1) % 32749)) % 32749
  ELSE LET mid == (lo + hi) \div 2 IN
    (MixRange(bs, base, lo, mid) + MixRange(bs, base, mid + 1, hi)) % 32749

Mix(bs, base) == MixRange(bs, base, 1, Len(bs))

\* crypto.getRandomValues(new Uint8Array(n)): the r-th draw of an ideal random
\* source; draws with different r differ (byte 1 is an injective image of r).
GetRandomValues(n, r) == [i \in 1..n |-> (r * 17 + i * 29 + 3) % 256]

KEY_LENGTH == 256

PBKDF2_ITERATIONS == 100000

SALT_LENGTH == 16

IV_LENGTH == 12

\* AES-GCM tag length in bytes (the default tagLength of 128 bits).
TAG_LENGTH == 16

FINGERPRINT_LENGTH == 32

\* A plausible slip: the key material ignores the password.
DeriveKeySaltOnly(password, salt) ==
  [pw |-> <<>>, salt |-> salt,
   iterations |-> PBKDF2_ITERATIONS, length |-> KEY_LENGTH]

\* SecureStorage.deriveKey(password, salt)
DeriveKey(password, salt) ==
  [pw |-> TextEncode(password), salt |-> salt,
   iterations |-> PBKDF2_ITERATIONS, length |-> KEY_LENGTH]

\* The bytes the primitives hash for a key and an iv.
KeyIvBytes(key, iv) ==
  <<Len(key.pw), Len(key.salt), Len(iv), key.iterations % 251, key.length>>
    \o key.pw \o key.salt \o iv

\* Keystream byte i of AES-GCM under (key, iv).
KeystreamByte(seed, i) == ((seed * 31 + i * 7919) % 32749) % 256

AesCtr(key, iv, data) ==
  LET seed == Mix(KeyIvBytes(key, iv), 257) IN
  SubSeq([i \in 1..Len(data) |-> Xor(data[i], KeystreamByte(seed, i))],
         1, Len(data))

\* The 16-byte authentication tag of ciphertext ct under (key, iv).
GcmTag(key, iv, ct) ==
  LET h1 == Mix(KeyIvBytes(key, iv) \o ct, 257)
      h2 == Mix(KeyIvBytes(key, iv) \o ct, 263)
  IN [j \in 1..TAG_LENGTH |->
        IF j = 1 THEN h1 \div 256
        ELSE IF j = 2 THEN h1 % 256
        ELSE IF j = 3 THEN h2 \div 256
        ELSE IF j = 4 THEN h2 % 256
        ELSE (h1 + j * h2) % 256]

\* crypto.subtle.encrypt({name: 'AES-GCM', iv}, key, data): ciphertext || tag.
AesGcmEncrypt(key, iv, data) ==
  LET ct == AesCtr(key, iv, data) IN ct \o GcmTag(key, iv, ct)

\* A plausible slip: a cipher mode without authentication.
AesDecryptUnauthenticated(key, iv, data) ==
  IF Len(data) < TAG_LENGTH THEN Err
  ELSE Ok(AesCtr(key, iv, SubSeq(data, 1, Len(data) - TAG_LENGTH)))

\* crypto.subtle.decrypt({name: 'AES-GCM', iv}, key, data): rejects (an
\* OperationError) when data is shorter than the tag or the tag does not verify.
AesGcmDecrypt(key, iv, data) ==
  IF Len(data) < TAG_LENGTH THEN Err
  ELSE LET ct == SubSeq(data, 1, Len(data) - TAG_LENGTH)
           tag == SubSeq(data, Len(data) - TAG_LENGTH + 1, Len(data))
       IN IF tag = GcmTag(key, iv, ct) THEN Ok(AesCtr(key, iv, ct)) ELSE Err

\* ------------------------------------------------------------------------
\* The browser environments of the model: navigator.userAgent,
\* navigator.language, screen.width and screen.height.
\* ------------------------------------------------------------------------
\* "Mozilla/5.0 (X11; Linux x86_64)"
UaLinux ==
  <<77, 111, 122, 105, 108, 108, 97, 47, 53, 46, 48, 32, 40, 88, 49, 49, 59,
    32, 76, 105, 110, 117, 120, 32, 120, 56, 54, 95, 54, 52, 41>>

\* "Mozilla/5.0 (Windows NT 10.0)"
UaWindows ==
  <<77, 111, 122, 105, 108, 108, 97, 47, 53, 46, 48, 32, 40, 87, 105, 110,
    100, 111, 119, 115, 32, 78, 84, 32, 49, 48, 46, 48, 41>>

\* "TestAgent/1"
UaShort == <<84, 101, 115, 116, 65, 103, 101, 110, 116, 47, 49>>

EnvTable ==
  << [ua |-> UaLinux, lang |-> <<101, 110>>, w |-> 1920, h |-> 1080],
     [ua |-> UaWindows, lang |-> <<101, 110>>, w |-> 1920, h |-> 1080],
     [ua |-> UaLinux, lang |-> <<102, 114>>, w |-> 1920, h |-> 1080],
     [ua |-> UaShort, lang |-> <<101, 110>>, w |-> 800, h |-> 600] >>

Envs == 1..Len(EnvTable)

\* Number formatting of a template literal: the decimal digits of n >= 0.
RECURSIVE Decimal(_)
Decimal(n) ==
  IF n < 10 THEN <<48 + n>> ELSE Decimal(n \div 10) \o <<48 + (n % 10)>>

\* ------------------------------------------------------------------------
\* JavaScript values, JSON.parse and JSON.stringify (ECMA-262, 25.5).
\* Numbers of the model are integers.  An object is the sequence of its
\* members [k, v] in property order.
\* ------------------------------------------------------------------------
JUndefined == [t |-> "undefined"]

JNull == [t |-> "null"]

JBool(b) == [t |-> "bool", b |-> b]

JNum(n) == [t |-> "num", n |-> n]

JStr(s) == [t |-> "str", s |-> s]

JArr(es) == [t |-> "arr", es |-> es]

JObj(ms) == [t |-> "obj", ms |-> ms]

\* ToBoolean(v)
Truthy(v) ==
  CASE v.t = "undefined" -> FALSE
    [] v.t = "null" -> FALSE
    [] v.t = "bool" -> v.b
    [] v.t = "num" -> v.n # 0
    [] v.t = "str" -> v.s # <<>>
    [] OTHER -> TRUE

\* The members ms after obj[k] = v: an existing property keeps its place.
SetMember(ms, k, v) ==
  IF \E i \in 1..Len(ms) : ms[i].k = k
    THEN SubSeq([i \in 1..Len(ms) |->
                   IF ms[i].k = k THEN [k |-> k, v |-> v] ELSE ms[i]],
                1, Len(ms))
    ELSE Append(ms, [k |-> k, v |-> v])

\* The property read v[k] for a key k that is no index and not "length":
\* a TypeError on null and undefined, undefined where v has no such property.
GetProp(v, k) ==
  IF v.t \in {"null", "undefined"} THEN Err
  ELSE IF v.t = "obj" /\ \E i \in 1..Len(v.ms) : v.ms[i].k = k
    THEN Ok(v.ms[CHOOSE i \in 1..Len(v.ms) : v.ms[i].k = k].v)
  ELSE Ok(JUndefined)

IsJsonWhitespace(c) == c \in {9, 10, 13, 32}

IsDigit(c) == c >= 48 /\ c <= 57

IsHexDigit(c) ==
  IsDigit(c) \/ (c >= 65 /\ c <= 70) \/ (c >= 97 /\ c <= 102)

HexVal(c) == IF IsDigit(c) THEN c - 48 ELSE IF c >= 97 THEN c - 87 ELSE c - 55

\* The first index from i on that holds no JSON whitespace, Len(s) + 1 if
\* there is none.
SkipWs(s, i) ==
  CHOOSE j \in i..Len(s) + 1 :
    /\ j = Len(s) + 1 \/ ~IsJsonWhitespace(s[j])
    /\ \A k \in i..j - 1 : IsJsonWhitespace(s[k])

\* The number of consecutive backslashes right before position p.
BackslashesBefore(s, p) ==
  CHOOSE d \in 0..p - 1 :
    /\ d = p - 1 \/ s[p - 1 - d] # 92
    /\ \A m \in p - d..p - 1 : s[m] = 92

IsEscaped(s, p) == BackslashesBefore(s, p) % 2 = 1

\* The closing quote of the string literal whose opening quote is at i,
\* Len(s) + 1 if the literal is not closed.
StringEnd(s, i) ==
  CHOOSE j \in i + 1..Len(s) + 1 :
    /\ j = Len(s) + 1 \/ (s[j] = 34 /\ ~IsEscaped(s, j))
    /\ \A k \in i + 1..j - 1 : ~(s[k] = 34 /\ ~IsEscaped(s, k))

\* The code units the character at p contributes to the value of the string
\* literal that spans i..j (quotes at i and j).
UnescapeAt(s, i, j, p) ==
  LET c == s[p] IN
  IF c = 92 THEN (IF IsEscaped(s, p) THEN Ok(<<92>>) ELSE Ok(<<>>))
  ELSE IF IsEscaped(s, p) THEN
    CASE c = 34 -> Ok(<<34>>)
      [] c = 47 -> Ok(<<47>>)
      [] c = 98 -> Ok(<<8>>)
      [] c = 102 -> Ok(<<12>>)
      [] c = 110 -> Ok(<<10>>)
      [] c = 114 -> Ok(<<13>>)
      [] c = 116 -> Ok(<<9>>)
      [] c = 117 ->
           IF p + 4 < j /\ \A h \in 1..4 : IsHexDigit(s[p + h])
             THEN Ok(<<4096 * HexVal(s[p + 1]) + 256 * HexVal(s[p + 2])
                         + 16 * HexVal(s[p + 3]) + HexVal(s[p + 4])>>)
             ELSE Err
      [] OTHER -> Err
  ELSE IF \E h \in 1..4 : p - h > i /\ s[p - h] = 117 /\ IsEscaped(s, p - h)
    THEN Ok(<<>>)
  ELSE IF c < 32 THEN Err
  ELSE Ok(<<c>>)

\* Results of the parsing steps: the value read and the index after it.
POk(v, next) == [ok |-> TRUE, val |-> v, next |-> next]

PErr == [ok |-> FALSE, val |-> JUndefined, next |-> 0]

\* The string literal that starts at i (s[i] is a quote).
ParseString(s, i) ==
  With(StringEnd(s, i), LAMBDA j :
    IF j > Len(s) THEN PErr
    ELSE With(SubSeq([q \in 1..j - 1 - i |-> UnescapeAt(s, i, j, i + q)],
                     1, j - 1 - i),
              LAMBDA parts :
                IF \E q \in 1..Len(parts) : ~parts[q].ok THEN PErr
                ELSE POk(Flatten([q \in 1..Len(parts) |-> parts[q].val]),
                         j + 1)))

\* The value of the decimal digits s[lo..hi].
RECURSIVE DigitsValue(_, _, _)
DigitsValue(s, lo, hi) ==
  IF lo > hi THEN 0 ELSE DigitsValue(s, lo, hi - 1) * 10 + (s[hi] - 48)

\* The number literal that starts at i.  A fraction, an exponent or more than
\* nine digits are outside the numbers of the model and rejected.
DigitsEnd(s, d0) ==
  IF d0 <= Len(s) /\ s[d0] = 48 THEN d0 + 1
  ELSE CHOOSE j \in d0..Len(s) + 1 :
         /\ j = Len(s) + 1 \/ ~IsDigit(s[j])
         /\ \A k \in d0..j - 1 : IsDigit(s[k])

ParseNumber(s, i) ==
  With(IF s[i] = 45 THEN i + 1 ELSE i, LAMBDA d0 :
    With(DigitsEnd(s, d0), LAMBDA e :
      IF e = d0 THEN PErr
      ELSE IF e <= Len(s) /\ s[e] \in {46, 69, 101} THEN PErr
      ELSE IF e - d0 > 9 THEN PErr
      ELSE With(DigitsValue(s, d0, e - 1), LAMBDA n :
             POk(JNum(IF d0 > i THEN 0 - n ELSE n), e))))

MatchAt(s, i, lit) ==
  i + Len(lit) - 1 <= Len(s) /\ SubSeq(s, i, i + Len(lit) - 1) = lit

\* The JSON value that starts at i (s[i] is no whitespace), the elements of
\* an array from i on, and the members of an object from i on.
RECURSIVE ParseValue(_, _)
RECURSIVE ParseElements(_, _, _)
RECURSIVE ParseMembers(_, _, _)
RECURSIVE ParseMemberValue(_, _, _)
ParseValue(s, i) ==
  IF i > Len(s) THEN PErr
  ELSE CASE s[i] = 34 ->
              With(ParseString(s, i), LAMBDA r :
                IF r.ok THEN POk(JStr(r.val), r.next) ELSE PErr)
         [] s[i] = 123 ->
              With(SkipWs(s, i + 1), LAMBDA j :
                IF j <= Len(s) /\ s[j] = 125 THEN POk(JObj(<<>>), j + 1)
                ELSE ParseMembers(s, j, <<>>))
         [] s[i] = 91 ->
              With(SkipWs(s, i + 1), LAMBDA j :
                IF j <= Len(s) /\ s[j] = 93 THEN POk(JArr(<<>>), j + 1)
                ELSE ParseElements(s, j, <<>>))
         [] s[i] = 45 \/ IsDigit(s[i]) -> ParseNumber(s, i)
         [] MatchAt(s, i, <<110, 117, 108, 108>>) -> POk(JNull, i + 4)
         [] MatchAt(s, i, <<116, 114, 117, 101>>) -> POk(JBool(TRUE), i + 4)
         [] MatchAt(s, i, <<102, 97, 108, 115, 101>>) ->
              POk(JBool(FALSE), i + 5)
         [] OTHER -> PErr

ParseElements(s, i, acc) ==
  With(ParseValue(s, i), LAMBDA v :
    IF ~v.ok THEN PErr
    ELSE With(SkipWs(s, v.next), LAMBDA j :
      IF j > Len(s) THEN PErr
      ELSE IF s[j] = 44
        THEN With(SkipWs(s, j + 1), LAMBDA n :
               With(Append(acc, v.val), LAMBDA es : ParseElements(s, n, es)))
      ELSE IF s[j] = 93 THEN POk(JArr(Append(acc, v.val)), j + 1)
      ELSE PErr))

\* The value of the member whose key k was read, and what follows it.
ParseMemberValue(s, k, acc) ==
  With(SkipWs(s, k.next), LAMBDA c :
    IF c > Len(s) \/ s[c] # 58 THEN PErr
    ELSE With(ParseValue(s, SkipWs(s, c + 1)), LAMBDA v :
      IF ~v.ok THEN PErr
      ELSE With(SkipWs(s, v.next), LAMBDA j :
        IF j > Len(s) THEN PErr
        ELSE With(SetMember(acc, k.val, v.val), LAMBDA ms :
          IF s[j] = 44
            THEN With(SkipWs(s, j + 1), LAMBDA n : ParseMembers(s, n, ms))
          ELSE IF s[j] = 125 THEN POk(JObj(ms), j + 1)
          ELSE PErr))))

ParseMembers(s, i, acc) ==
  IF i > Len(s) \/ s[i] # 34 THEN PErr
  ELSE With(ParseString(s, i), LAMBDA k :
         IF ~k.ok THEN PErr ELSE ParseMemberValue(s, k, acc))

\* JSON.parse(text): Err stands for the SyntaxError.
JsonParse(text) ==
  With(ParseValue(text, SkipWs(text, 1)), LAMBDA r :
    IF r.ok /\ SkipWs(text, r.next) = Len(text) + 1 THEN Ok(r.val) ELSE Err)

HexDigit(n) == IF n < 10 THEN 48 + n ELSE 87 + n

\* The \uXXXX escape of code unit c.
UnicodeEscape(c) ==
  <<92, 117, HexDigit(c \div 4096), HexDigit((c \div 256) % 16),
    HexDigit((c \div 16) % 16), HexDigit(c % 16)>>

\* The text QuoteJSONString emits for the code unit at position p of s.
QuoteAt(s, p) ==
  LET c == s[p] IN
  CASE c = 34 -> <<92, 34>>
    [] c = 92 -> <<92, 92>>
    [] c = 8 -> <<92, 98>>
    [] c = 12 -> <<92, 102>>
    [] c = 10 -> <<92, 110>>
    [] c = 13 -> <<92, 114>>
    [] c = 9 -> <<92, 116>>
    [] c < 32 -> UnicodeEscape(c)
    [] IsHighSurrogate(c) /\ ~(p < Len(s) /\ IsLowSurrogate(s[p + 1])) ->
         UnicodeEscape(c)
    [] IsLowSurrogate(c) /\ ~(p > 1 /\ IsHighSurrogate(s[p - 1])) ->
         UnicodeEscape(c)
    [] OTHER -> <<c>>

QuoteJSONString(s) ==
  <<34>> \o Flatten([p \in 1..Len(s) |-> QuoteAt(s, p)]) \o <<34>>

\* The decimal text of an integer.
NumberToString(n) == IF n < 0 THEN <<45>> \o Decimal(0 - n) ELSE Decimal(n)

IsDefined(m) == m.v.t # "undefined"

\* JSON.stringify(v) for a value v other than undefined.
RECURSIVE JsonStringify(_)
JsonStringify(v) ==
  CASE v.t = "null" -> <<110, 117, 108, 108>>
    [] v.t = "bool" ->
         IF v.b THEN <<116, 114, 117, 101>> ELSE <<102, 97, 108, 115, 101>>
    [] v.t = "num" -> NumberToString(v.n)
    [] v.t = "str" -> QuoteJSONString(v.s)
    [] v.t = "arr" ->
         <<91>> \o Flatten([i \in 1..Len(v.es) |->
                   (IF i > 1 THEN <<44>> ELSE <<>>)
                     \o JsonStringify(IF v.es[i].t = "undefined" THEN JNull
                                      ELSE v.es[i])]) \o <<93>>
    [] v.t = "obj" ->
         With(SelectSeq(v.ms, IsDefined), LAMBDA ms :
           <<123>> \o Flatten([i \in 1..Len(ms) |->
                      (IF i > 1 THEN <<44>> ELSE <<>>)
                        \o QuoteJSONString(ms[i].k) \o <<58>>
                        \o JsonStringify(ms[i].v)]) \o <<125>>)

\* SecureStorage.getDeviceFingerprint() in environment e.
GetDeviceFingerprint(e) ==
  LET b == Btoa(e.ua \o <<45>> \o e.lang \o <<45>>
                  \o Decimal(e.w) \o <<120>> \o Decimal(e.h))
  IN IF b.ok THEN Ok(Slice(b.val, 0, FINGERPRINT_LENGTH)) ELSE Err

\* A plausible slip: the iv is a fixed value instead of a fresh random draw.
EncryptDataStaticIv(data, e, r) ==
  LET dataBuffer == TextEncode(data)
      salt == GetRandomValues(SALT_LENGTH, r)
      fp == GetDeviceFingerprint(e)
  IN IF ~fp.ok THEN Err
     ELSE LET key == DeriveKey(fp.val, salt)
              iv == [i \in 1..IV_LENGTH |-> 0]
              encryptedBuffer == AesGcmEncrypt(key, iv, dataBuffer)
          IN Btoa(salt \o iv \o encryptedBuffer)

\* SecureStorage.encryptData(data) in environment e; r is the number of random
\* draws made before the call (the salt is draw r, the iv draw r + 1).
EncryptData(data, e, r) ==
  LET dataBuffer == TextEncode(data)
      salt == GetRandomValues(SALT_LENGTH, r)
      fp == GetDeviceFingerprint(e)
  IN IF ~fp.ok THEN Err
     ELSE LET key == DeriveKey(fp.val, salt)
              iv == GetRandomValues(IV_LENGTH, r + 1)
              encryptedBuffer == AesGcmEncrypt(key, iv, dataBuffer)
          IN Btoa(salt \o iv \o encryptedBuffer)

\* SecureStorage.decryptData(encryptedData) in environment e.  Every failure
\* inside the try block is rethrown as the one Error('Failed to decrypt data').
DecryptData(encryptedData, e) ==
  LET decoded == Atob(encryptedData) IN
  IF ~decoded.ok THEN Err
  ELSE LET combinedBuffer == decoded.val
           salt == Slice(combinedBuffer, 0, SALT_LENGTH)
           iv == Slice(combinedBuffer, SALT_LENGTH, SALT_LENGTH + IV_LENGTH)
           encrypted == Slice(combinedBuffer, SALT_LENGTH + IV_LENGTH,
                              Len(combinedBuffer))
           fp == GetDeviceFingerprint(e)
       IN IF ~fp.ok THEN Err
          ELSE LET decryptedBuffer ==
                     AesGcmDecrypt(DeriveKey(fp.val, salt), iv, encrypted)
               IN IF decryptedBuffer.ok
                    THEN Ok(TextDecode(decryptedBuffer.val))
                    ELSE Err

\* ------------------------------------------------------------------------
\* State
\* ------------------------------------------------------------------------
VARIABLES
  env,      \* index in EnvTable of the browser environment the page runs in
  rng,      \* number of crypto.getRandomValues draws made so far
  plain,    \* the plaintext handed to encryptData in this run
  encLog,   \* the encryptData calls made: [env, out]
  dec       \* the decryptData call of the run: [kind, src, pos, input, env, out]

VARIABLES
  storage,  \* localStorage: the entries 'user-api-keys-encrypted' (enc) and
            \* 'user-api-keys' (plain), each [present, val]
  manager,  \* the ApiKeyManager component: "closed", "open" or "crashed"
  apiKeys,  \* the apiKeys state of ApiKeyManager
  toast,    \* the title of the last toast shown
  gen,      \* the generateDiagram call of the run
  requests  \* the supabase.functions.invoke requests sent: [fn, body]

VARIABLES
  now,      \* the clock, in poll intervals
  mounted,  \* for each component that uses the useSecurity hook: its effect
            \* has run and its cleanup has not
  monitor,  \* SessionMonitor: [state, lastActivity, warningFired,
            \* timeoutFired, due, timers, since], due being the time of the
            \* next check, timers the number of running interval timers and
            \* since the time monitoring started
  ui,       \* what the session callbacks did: [toast, signedIn] and, since
            \* the inactivity episode began, the calls [warnings, timeouts]
  lastCheck,\* the time of the last periodic check of the episode, -1 if none
  hist      \* what the hook asked of the monitor: [last, activityAt,
            \* resumed], last being its last start or stop call, activityAt
            \* the time of the last start or user activity, and resumed
            \* whether that activity came between a warning and the timeout

VARIABLES
  failures, \* AuthFailureMonitor: identifier -> failure timestamps
  ledger,   \* identifier -> timestamps of the recordFailure calls made since
            \* the last clearFailures of the identifier, never pruned
  authLast  \* the last call of an authentication handler of the hook:
            \* [op, id, at, wasLocked, locked, remaining, minutes], wasLocked
            \* being the lockout of id when the call was made

VARIABLES
  edge,     \* one request to the analyze-codebase edge function
  limiter,  \* the middleware made by createUserRateLimit and its requests
  attempts, \* RateLimiter: identifier -> timestamps of the attempts
  page,     \* the Index page and its pending loads
  database, \* the Database singleton and its connect() calls
  cart      \* CartProvider and its addToCart calls

vaultVars == <<rng, plain, encLog, dec>>

restVars == <<edge, limiter, attempts, page, database, cart>>

authVars == <<failures, ledger, authLast>>

monVars == <<now, mounted, monitor, ui, lastCheck, hist, authVars>>

appVars == <<storage, manager, apiKeys, toast, gen, requests>>

vars == <<env, rng, plain, encLog, dec, storage, manager, apiKeys, toast, gen,
          requests, now, mounted, monitor, ui, lastCheck, hist, failures,
          ledger, authLast, edge, limiter, attempts, page, database, cart>>

\* ------------------------------------------------------------------------
\* The credential vault on its own: encryptData and decryptData calls
\* ------------------------------------------------------------------------
\* Bound on the number of encryptData calls of a run.
MaxEncrypts == 2

\* The plaintexts of the model: "sk-1", the empty string, "e-acute",
\* U+FEFF followed by "k", a lone high surrogate followed by "a", and the
\* surrogate pair of U+1F600.
Plaintexts ==
  { <<115, 107, 45, 49>>, <<>>, <<233>>, <<65279, 107>>, <<55357, 97>>,
    <<55357, 56832>> }

\* Offsets added (modulo 256) to a byte by the tampering of the model.
TamperDeltas == {1, 128}

\* Inputs of decryptData that no encryptData call produced: the empty string,
\* "AAAA", "not base64!", "A", and base64 texts of 27, 28, 43 and 44 bytes.
Base64Of(n) == B64Encode([i \in 1..n |-> (i * 37) % 256])

RawInputs ==
  { <<>>, <<65, 65, 65, 65>>,
    <<110, 111, 116, 32, 98, 97, 115, 101, 54, 52, 33>>, <<65>>,
    Base64Of(27), Base64Of(28), Base64Of(43), Base64Of(44) }

NoDecrypt ==
  [kind |-> "none", src |-> 0, pos |-> 0, input |-> <<>>, env |-> 0,
   out |-> Err]

\* No encryptData or decryptData call was made.
VaultIdle ==
  /\ rng = 0
  /\ plain = <<>>
  /\ encLog = <<>>
  /\ dec = NoDecrypt

\* ------------------------------------------------------------------------
\* The session monitor and the useSecurity hook
\* ------------------------------------------------------------------------
\* Inactivity, in poll intervals, after which the warning and the timeout are
\* due.
WarningThreshold == 2

TimeoutThreshold == 4

\* Bound on the clock.
MaxTime == 7

\* The components that use the useSecurity hook.
Components == {1, 2}

IdleMonitor ==
  [state |-> "Idle", lastActivity |-> 0, warningFired |-> FALSE,
   timeoutFired |-> FALSE, due |-> 0, timers |-> 0, since |-> 0]

NoHistory == [last |-> "none", activityAt |-> 0, resumed |-> FALSE]

InitialUi == [toast |-> "none", signedIn |-> TRUE, warnings |-> 0,
              timeouts |-> 0]

\* ------------------------------------------------------------------------
\* The authentication-failure tracker
\* ------------------------------------------------------------------------
\* Milliseconds of one step of the clock.
TickMs == 30000

MsPerMinute == 60000

\* Failures inside the window that lock an identifier out.
MaxAttempts == 2

\* The lockout window, in steps of the clock.
LockoutTicks == 3

LockoutWindow == LockoutTicks * TickMs

\* Bound on the clock in the runs of the tracker.
MaxAuthTime == 5

\* Bound on the recorded failures, of all identifiers together, that no
\* clearFailures call has removed.
MaxRecords == 3

Identifiers == {"a@b.com", "c@d.com"}

\* Date.now()
DateNow == now * TickMs

\* A timestamp is inside the trailing window at time t.
InWindow(stamp, t) == t - stamp < LockoutWindow

\* A plausible slip: the window is cut one step short.
PruneEarly(stamps, t) ==
  SelectSeq(stamps, LAMBDA s : t - s < LockoutWindow - TickMs)

\* The timestamps left after the entries older than the window are removed.
Prune(stamps, t) == SelectSeq(stamps, LAMBDA s : InWindow(s, t))

Oldest(stamps) ==
  CHOOSE s \in {stamps[i] : i \in 1..Len(stamps)} :
    \A i \in 1..Len(stamps) : s <= stamps[i]

\* A plausible slip: a failure with a timestamp already listed is dropped.
RecordFailureOncePerInstant(f, id, t) ==
  [f EXCEPT ![id] = IF \E i \in 1..Len(@) : @[i] = t THEN @
                    ELSE Append(@, t)]

\* AuthFailureMonitor.recordFailure(id) at time t.
RecordFailure(f, id, t) == [f EXCEPT ![id] = Append(@, t)]

\* A plausible slip: a lockout, once reached, is read from the stored list
\* and nothing is pruned.
IsLockedOutUnpruned(f, id, t) ==
  [failures |-> f, locked |-> Len(f[id]) >= MaxAttempts]

\* AuthFailureMonitor.isLockedOut(id) at time t: the pruned map and the
\* answer.
IsLockedOut(f, id, t) ==
  [failures |-> [f EXCEPT ![id] = Prune(@, t)],
   locked |-> Len(Prune(f[id], t)) >= MaxAttempts]

\* A plausible slip: the oldest timestamp of the stored list is used, pruned
\* or not.
GetRemainingLockoutTimeStored(f, id, t) ==
  IF Len(f[id]) < MaxAttempts THEN 0
  ELSE IF Oldest(f[id]) + LockoutWindow - t > 0
         THEN Oldest(f[id]) + LockoutWindow - t
         ELSE 0

\* AuthFailureMonitor.getRemainingLockoutTime(id) at time t.
GetRemainingLockoutTime(f, id, t) ==
  IF Len(Prune(f[id], t)) < MaxAttempts THEN 0
  ELSE Oldest(Prune(f[id], t)) + LockoutWindow - t

\* AuthFailureMonitor.clearFailures(id)
ClearFailures(f, id) == [f EXCEPT ![id] = <<>>]

\* Math.ceil(remainingTime / (1000 * 60)) for remainingTime >= 0
Minutes(remainingTime) == (remainingTime + MsPerMinute - 1) \div MsPerMinute

NoAuthCall ==
  [op |-> "none", id |-> "", at |-> 0, wasLocked |-> FALSE,
   locked |-> FALSE, remaining |-> 0, minutes |-> 0]

\* The number of failures recorded for the identifiers ids and not cleared.
RECURSIVE Recorded(_)
Recorded(ids) ==
  IF ids = {} THEN 0
  ELSE LET id == CHOOSE i \in ids : TRUE
       IN  Len(ledger[id]) + Recorded(ids \ {id})

\* No failure was recorded.
AuthIdle ==
  /\ failures = [id \in Identifiers |-> <<>>]
  /\ ledger = [id \in Identifiers |-> <<>>]
  /\ authLast = NoAuthCall

\* No component uses the hook.
MonitorIdle ==
  /\ now = 0
  /\ mounted = [c \in Components |-> FALSE]
  /\ monitor = IdleMonitor
  /\ ui = InitialUi
  /\ lastCheck = -1
  /\ hist = NoHistory
  /\ AuthIdle

\* ------------------------------------------------------------------------
\* The other parts of the repository, before anything has run
\* ------------------------------------------------------------------------
\* No request has reached the analyze-codebase function.  The fields of a
\* request: its method, body, the result of the file query, the session id
\* and the keys the handler found, the diagram so far, the providers called
\* in order, how the OpenAI call ended, and the response.
EdgeIdle ==
  [phase |-> "idle", method |-> "", body |-> <<>>, files |-> [error |-> FALSE, null |-> TRUE, length |-> 0],
   openAIApiKey |-> JUndefined, claudeApiKey |-> JUndefined,
   sessionId |-> JUndefined,
   mermaidCode |-> JUndefined, openai |-> "not called", calls |-> <<>>, status |-> 0,
   response |-> <<>>]
\* createUserRateLimit of the sample backend: the options, the Map of
\* request histories, the clock, and a log of what each request got.
LimitWindowMs == 3
LimitMax == 2
LimitUsers == {1, 2}
Anonymous == 0
MaxLimitTime == 5
MaxRequests == 4
NoEntry == [has |-> FALSE, list |-> <<>>]
Entry(list) == [has |-> TRUE, list |-> list]
LimiterIdle ==
  [now |-> 0, userRequests |-> [id \in LimitUsers |-> NoEntry], log |-> <<>>]
\* RateLimiter: the constructor arguments, the Map of attempts, the clock,
\* the attempts that were recorded, and what the last call returned.
RateMaxAttempts == 2
RateWindowMs == 3
RateIdentifiers == {"u1", "u2"}
MaxRateTime == 4
MaxRateRecords == 3
NoRateCall == [op |-> "none", id |-> "", at |-> 0, result |-> 0]
AttemptsIdle ==
  [now |-> 0, attempts |-> [id \in RateIdentifiers |-> NoEntry],
   recorded |-> [id \in RateIdentifiers |-> <<>>], last |-> NoRateCall]
\* The Index page: its React state, the signed-in user of the Supabase
\* client, the requests in flight, the rows of the database, and counters
\* of what the user did.
NoUser == ""
NoSession == ""
PageUsers == {"u1"}
StoredSessions == {"A", "B"}
AllSessions == StoredSessions \cup {"N1", "N2"}
MaxAuthEvents == 2
MaxSelects == 2
MaxEdits == 1

\* What useState gave the first render, which the callbacks with an empty
\* dependency list keep seeing.
FirstRenderUser == NoUser
FirstRenderSessionId == NoSession

DbIdle ==
  [sessions |-> StoredSessions,
   messages |-> [s \in AllSessions |->
                   IF s = "A" THEN <<"a1", "a2">>
                   ELSE IF s = "B" THEN <<"b1">> ELSE <<>>],
   files |-> [s \in AllSessions |->
                IF s = "A" THEN <<"a.ts">>
                ELSE IF s = "B" THEN <<"b.ts">> ELSE <<>>],
   created |-> 0]

PageIdle ==
  [user |-> NoUser, sessionId |-> NoSession, messages |-> <<>>,
   uploadedFiles |-> <<>>, isLoading |-> FALSE, toast |-> "none",
   getUser |-> "pending", signedIn |-> NoUser, tasks |-> <<>>,
   db |-> DbIdle, dropped |-> 0, authEvents |-> 0, selects |-> 0,
   edits |-> 0, edited |-> FALSE,
   loadFailed |-> FALSE]
\* The Database singleton of the sample backend: its two fields, the calls
\* awaiting mongoose, the number of handler sets registered on the connection
\* and on the process, and what was invoked since the last disconnect().
MaxConnectCalls == 3
MaxDbEvents == 2
DatabaseIdle ==
  [connection |-> "null", isConnected |-> FALSE, connecting |-> 0,
   closing |-> 0, handlers |-> 0, exiting |-> FALSE, exited |-> FALSE,
   calls |-> 0, events |-> 0, invoked |-> 0, registered |-> 0]
\* CartProvider of the sample frontend: the state cartItems, the cartItems
\* that the functions of the last render see, the user of useAuth, the
\* requests to /api/cart in flight, the cart kept by the server, and the
\* quantities that were asked for.
Products == {"p1", "p2"}
Quantities == {1, 2}
MaxAdds == 3
MaxLogins == 1
CartIdle ==
  [cartItems |-> <<>>, rendered |-> <<>>, isLoading |-> FALSE,
   user |-> FALSE, inFlight |-> <<>>, server |-> <<>>, adds |-> 0,
   logins |-> 0, asked |-> [p \in Products |-> 0]]
RestIdle ==
  /\ edge = EdgeIdle
  /\ limiter = LimiterIdle
  /\ attempts = AttemptsIdle
  /\ page = PageIdle
  /\ database = DatabaseIdle
  /\ cart = CartIdle

\* ------------------------------------------------------------------------
\* localStorage, ApiKeyManager and VisualPlayground.generateDiagram
\* ------------------------------------------------------------------------
Absent == [present |-> FALSE, val |-> <<>>]

Present(text) == [present |-> TRUE, val |-> text]

\* localStorage.getItem: null for a missing entry.
GetItem(entry) == IF entry.present THEN JStr(entry.val) ELSE JNull

Providers == {<<111, 112, 101, 110, 97, 105>>, <<99, 108, 97, 117, 100, 101>>, <<103, 111, 111, 103, 108, 101>>}

\* What the user types into a key field: nothing, or the key "sk-1".
KeyInputs == {<<>>, <<115, 107, 45, 49>>}

\* The key inside the encrypted entry an earlier session left: "sk-9".
StoredKey == <<115, 107, 45, 57>>

\* useState<ApiKeys>({openai: '', claude: '', google: ''})
InitialApiKeys ==
  JObj(<<[k |-> <<111, 112, 101, 110, 97, 105>>, v |-> JStr(<<>>)],
         [k |-> <<99, 108, 97, 117, 100, 101>>, v |-> JStr(<<>>)],
         [k |-> <<103, 111, 111, 103, 108, 101>>, v |-> JStr(<<>>)]>>)

\* The plaintexts inside the encrypted entries an earlier session may have
\* left: a key object, "{oops", "null", "5" and "{}".
StoredSecrets ==
  { JsonStringify(JObj(SetMember(InitialApiKeys.ms, <<111, 112, 101, 110, 97, 105>>,
                                 JStr(StoredKey)))),
    <<123, 111, 111, 112, 115>>, <<110, 117, 108, 108>>, <<53>>, <<123, 125>> }

\* The contents of 'user-api-keys-encrypted' when the page opens: missing,
\* empty, "not base64!", or a blob made in environment 1.
StoredEncrypted ==
  {Absent, Present(<<>>), Present(<<110, 111, 116, 32, 98, 97, 115, 101, 54, 52, 33>>)}
    \cup { Present(EncryptData(s, EnvTable[1], 0).val) : s \in StoredSecrets }

\* The contents of 'user-api-keys' when the page opens: missing, "{oops" or
\* "null".
StoredPlain == {Absent, Present(<<123, 111, 111, 112, 115>>), Present(<<110, 117, 108, 108>>)}

\* The environments the application is opened in.
AppEnvs == {1, 2}

NoGen ==
  [phase |-> "idle", loaded |-> FALSE,
   decrypt |-> [called |-> FALSE, out |-> Err],
   userApiKeys |-> JNull, isLoading |-> FALSE, mermaidCode |-> <<>>,
   uncaught |-> FALSE]

\* The application was not opened.
AppIdle ==
  /\ storage = [enc |-> Absent, plain |-> Absent]
  /\ manager = "closed"
  /\ apiKeys = InitialApiKeys
  /\ toast = "none"
  /\ gen = NoGen
  /\ requests = <<>>

\* String.prototype.trim removes these code units (WhiteSpace and
\* LineTerminator of ECMA-262).
IsWhiteSpace(c) ==
  \/ c \in {9, 10, 11, 12, 13, 32, 160, 5760, 8232, 8233, 8239, 8287, 12288,
            65279}
  \/ (c >= 8192 /\ c <= 8202)

IsBlank(s) == \A i \in 1..Len(s) : IsWhiteSpace(s[i])

\* Object.values(v): a TypeError on null and undefined.
ObjectValues(v) ==
  CASE v.t \in {"null", "undefined"} -> Err
    [] v.t = "obj" -> Ok(SubSeq([i \in 1..Len(v.ms) |-> v.ms[i].v],
                                1, Len(v.ms)))
    [] v.t = "arr" -> Ok(v.es)
    [] v.t = "str" -> Ok(SubSeq([i \in 1..Len(v.s) |-> JStr(<<v.s[i]>>)],
                                1, Len(v.s)))
    [] OTHER -> Ok(<<>>)

\* The own enumerable properties the spread {...v} copies.
SpreadMembers(v) ==
  CASE v.t = "obj" -> v.ms
    [] v.t = "arr" ->
         SubSeq([i \in 1..Len(v.es) |-> [k |-> Decimal(i - 1), v |-> v.es[i]]],
                1, Len(v.es))
    [] v.t = "str" ->
         SubSeq([i \in 1..Len(v.s) |->
                   [k |-> Decimal(i - 1), v |-> JStr(<<v.s[i]>>)]],
                1, Len(v.s))
    [] OTHER -> <<>>

\* hasAnyKeys of the render of ApiKeyManager:
\* Object.values(apiKeys).some(key => key.trim() !== '').  some() stops at the
\* first value with a non-blank text; a value without trim() throws.
HasAnyKeys(v) ==
  With(ObjectValues(v), LAMBDA vals :
    IF ~vals.ok THEN Err
    ELSE With({ i \in 1..Len(vals.val) :
                  vals.val[i].t # "str" \/ ~IsBlank(vals.val[i].s) },
              LAMBDA stops :
                IF stops = {} THEN Ok(FALSE)
                ELSE IF vals.val[CHOOSE i \in stops :
                                   \A j \in stops : i <= j].t # "str"
                  THEN Err
                ELSE Ok(TRUE)))

\* The state of the component after a render with the apiKeys value v: an
\* exception in the render unmounts the component.
Rendered(v) == IF HasAnyKeys(v).ok THEN "open" ELSE "crashed"

\* The mount of ApiKeyManager with its effect that loads 'user-api-keys'.
OpenManager ==
  /\ gen.phase = "idle"
  /\ manager = "closed"
  /\ IF Truthy(GetItem(storage.plain))
       THEN \E parsedKeys \in {JsonParse(storage.plain.val)} :
              IF parsedKeys.ok
                THEN /\ apiKeys' = parsedKeys.val
                     /\ manager' = Rendered(parsedKeys.val)
                ELSE /\ apiKeys' = apiKeys
                     /\ manager' = "open"
       ELSE /\ apiKeys' = apiKeys
            /\ manager' = "open"
  /\ UNCHANGED <<env, vaultVars, monVars, restVars, storage, toast, gen, requests>>

\* ApiKeyManager.handleKeyChange(provider, value)
HandleKeyChange(provider, value) ==
  /\ gen.phase = "idle"
  /\ manager = "open"
  /\ apiKeys' = JObj(SetMember(SpreadMembers(apiKeys), provider, JStr(value)))
  /\ manager' = Rendered(apiKeys')
  /\ UNCHANGED <<env, vaultVars, monVars, restVars, storage, toast, gen, requests>>

\* ApiKeyManager.saveApiKeys(); setItem throws when the quota is exceeded.
SaveApiKeys(quotaExceeded) ==
  /\ gen.phase = "idle"
  /\ manager = "open"
  /\ IF quotaExceeded
       THEN /\ toast' = "Error"
            /\ UNCHANGED storage
       ELSE /\ storage' = [storage EXCEPT
                             !.plain = Present(JsonStringify(apiKeys))]
            /\ toast' = "API Keys Saved"
  /\ UNCHANGED <<env, vaultVars, monVars, restVars, manager, apiKeys, gen, requests>>

\* ApiKeyManager.clearApiKeys()
ClearApiKeys ==
  /\ gen.phase = "idle"
  /\ manager = "open"
  /\ apiKeys' = InitialApiKeys
  /\ storage' = [storage EXCEPT !.plain = Absent]
  /\ toast' = "API Keys Cleared"
  /\ UNCHANGED <<env, vaultVars, monVars, restVars, manager, gen, requests>>

\* The try block of the key loading of generateDiagram in environment e:
\* res is the value assigned to userApiKeys, or Err when the block threw.
TryLoadKeys(st, e) ==
  IF Truthy(GetItem(st.enc))
    THEN With(DecryptData(st.enc.val, EnvTable[e]), LAMBDA d :
           [decrypt |-> [called |-> TRUE, out |-> d],
            res |-> IF d.ok THEN JsonParse(d.val) ELSE Err])
    ELSE [decrypt |-> [called |-> FALSE, out |-> Err],
          res |-> IF Truthy(GetItem(st.plain)) THEN JsonParse(st.plain.val)
                  ELSE Ok(JNull)]

\* A plausible slip: the catch block parses the entry outside a try.
CatchLoadKeysUnguarded(st) ==
  IF Truthy(GetItem(st.plain)) THEN JsonParse(st.plain.val) ELSE Ok(JNull)

\* The catch block of the key loading: the value of userApiKeys after it, or
\* Err when the block threw.
CatchLoadKeys(st) ==
  IF Truthy(GetItem(st.plain))
    THEN With(JsonParse(st.plain.val), LAMBDA p :
           IF p.ok THEN Ok(p.val) ELSE Ok(JNull))
    ELSE Ok(JNull)

\* The key loading of generateDiagram (try and catch): res is the value of
\* userApiKeys after it, or Err when an exception left the catch block.
LoadUserApiKeys(st, e) ==
  With(TryLoadKeys(st, e), LAMBDA t :
    [decrypt |-> t.decrypt,
     res |-> IF t.res.ok THEN t.res ELSE CatchLoadKeys(st)])

\* a || b for two property reads that may throw.
OrElse(a, b) == IF ~a.ok THEN Err ELSE IF Truthy(a.val) THEN a ELSE b

\* userApiKeys && (userApiKeys.openai || userApiKeys.claude
\*                   || userApiKeys.google)
HasApiKeys(v) ==
  IF ~Truthy(v) THEN Ok(v)
  ELSE OrElse(GetProp(v, <<111, 112, 101, 110, 97, 105>>),
              OrElse(GetProp(v, <<99, 108, 97, 117, 100, 101>>), GetProp(v, <<103, 111, 111, 103, 108, 101>>)))

\* The body of the analyze-codebase request as functions.invoke sends it.
RequestBody(sessionId, userApiKeys) ==
  JsonStringify(JObj(<<[k |-> <<115, 101, 115, 115, 105, 111, 110, 73, 100>>, v |-> sessionId],
                       [k |-> <<117, 115, 101, 114, 65, 112, 105, 75, 101, 121, 115>>, v |-> userApiKeys]>>))

\* The values of the props of VisualPlayground.
SessionIds == {JNull, JStr(<<115, 49>>)}

FileCounts == {0, 1}

\* generateDiagram() up to the await of functions.invoke.  The await of
\* decryptData is no scheduling point of the model: no other handler of the
\* model runs on the page of the playground.
GenerateDiagram(sessionId, user, fileCount) ==
  /\ gen.phase = "idle"
  /\ IF ~Truthy(sessionId) \/ ~user
       THEN /\ toast' = "Authentication required"
            /\ gen' = [gen EXCEPT !.phase = "done"]
            /\ UNCHANGED requests
     ELSE IF fileCount = 0
       THEN /\ toast' = "No files uploaded"
            /\ gen' = [gen EXCEPT !.phase = "done"]
            /\ UNCHANGED requests
     ELSE \E l \in {LoadUserApiKeys(storage, env)} :
          \E hasApiKeys \in {IF l.res.ok THEN HasApiKeys(l.res.val) ELSE Err} :
            IF ~hasApiKeys.ok
              THEN /\ gen' = [gen EXCEPT !.phase = "done", !.loaded = TRUE,
                                         !.decrypt = l.decrypt,
                                         !.uncaught = TRUE]
                   /\ UNCHANGED <<toast, requests>>
            ELSE IF ~Truthy(hasApiKeys.val)
              THEN /\ toast' = "API Keys Required"
                   /\ gen' = [gen EXCEPT !.phase = "done", !.loaded = TRUE,
                                         !.decrypt = l.decrypt,
                                         !.userApiKeys = l.res.val]
                   /\ UNCHANGED requests
            ELSE /\ gen' = [gen EXCEPT !.phase = "invoking", !.loaded = TRUE,
                                       !.decrypt = l.decrypt,
                                       !.userApiKeys = l.res.val,
                                       !.isLoading = TRUE]
                 /\ requests' =
                      Append(requests,
                             [fn |-> "analyze-codebase",
                              body |-> RequestBody(sessionId, l.res.val)])
                 /\ UNCHANGED toast
  /\ UNCHANGED <<env, vaultVars, monVars, restVars, storage, manager, apiKeys>>

\* The results functions.invoke resolves with: an error, a diagram, or
\* neither data nor error.
InvokeResults ==
  { [error |-> TRUE, data |-> JNull],
    [error |-> FALSE,
     data |-> JObj(<<[k |-> <<109, 101, 114, 109, 97, 105, 100, 67, 111, 100, 101>>, v |-> JStr(<<103, 114, 97, 112, 104, 32, 84, 68>>)],
                     [k |-> <<102, 105, 108, 101, 67, 111, 117, 110, 116>>, v |-> JNum(1)]>>)],
    [error |-> FALSE, data |-> JNull] }

\* generateDiagram() after the await of functions.invoke.
InvokeDone(result) ==
  /\ gen.phase = "invoking"
  /\ \E code \in {GetProp(result.data, <<109, 101, 114, 109, 97, 105, 100, 67, 111, 100, 101>>)} :
     IF result.error \/ ~code.ok
       THEN /\ toast' = "Generation Failed"
            /\ gen' = [gen EXCEPT !.phase = "done", !.isLoading = FALSE]
       ELSE /\ toast' = "Diagram generated"
            /\ gen' = [gen EXCEPT !.phase = "done", !.isLoading = FALSE,
                                  !.mermaidCode = code.val.s]
  /\ UNCHANGED <<env, vaultVars, monVars, restVars, storage, manager, apiKeys, requests>>

\* The page opens on the storage an earlier session left.
AppInit ==
  /\ env \in AppEnvs
  /\ VaultIdle
  /\ storage \in [enc : StoredEncrypted, plain : StoredPlain]
  /\ manager = "closed"
  /\ apiKeys = InitialApiKeys
  /\ toast = "none"
  /\ gen = NoGen
  /\ requests = <<>>
  /\ MonitorIdle
  /\ RestIdle

AppNext ==
  \/ OpenManager
  \/ \E provider \in Providers, value \in KeyInputs :
       HandleKeyChange(provider, value)
  \/ \E quotaExceeded \in BOOLEAN : SaveApiKeys(quotaExceeded)
  \/ ClearApiKeys
  \/ \E sessionId \in SessionIds, user \in BOOLEAN, fileCount \in FileCounts :
       GenerateDiagram(sessionId, user, fileCount)
  \/ \E result \in InvokeResults : InvokeDone(result)

SpecApp == AppInit /\ [][AppNext]_vars

\* ------------------------------------------------------------------------
\* SessionMonitor and the handlers of useSecurity
\* ------------------------------------------------------------------------
\* SessionMonitor.startMonitoring(onWarning, onTimeout) at time t: the state
\* of the monitor after it.  The first check is due one poll interval later.
\* A plausible slip: every start adds an interval timer to those running.
StartMonitoringStacked(t) ==
  [state |-> "Monitoring", lastActivity |-> t, warningFired |-> FALSE,
   timeoutFired |-> FALSE, due |-> t + 1, timers |-> monitor.timers + 1,
   since |-> t]

StartMonitoring(t) ==
  [state |-> "Monitoring", lastActivity |-> t, warningFired |-> FALSE,
   timeoutFired |-> FALSE, due |-> t + 1, timers |-> 1, since |-> t]

\* SessionMonitor.stopMonitoring(intervalId): the timer is cleared.
StopMonitoring(m) == [m EXCEPT !.state = "Idle", !.timers = 0]

\* A plausible slip: activity moves the timestamp and keeps the flags.
MonitorUpdateActivityKeepsFlags(m, t) == [m EXCEPT !.lastActivity = t]

\* SessionMonitor.updateActivity() at time t.
MonitorUpdateActivity(m, t) ==
  [m EXCEPT !.lastActivity = t, !.warningFired = FALSE,
            !.timeoutFired = FALSE]

\* useSecurity.handleSessionWarning
HandleSessionWarning(u) ==
  [u EXCEPT !.toast = "Session Expiring Soon", !.warnings = @ + 1]

\* A plausible slip: the timeout handler also shows the warning.
HandleSessionTimeoutAlsoWarns(u) ==
  [u EXCEPT !.toast = "Session Expired", !.signedIn = FALSE,
            !.warnings = @ + 1, !.timeouts = @ + 1]

\* useSecurity.handleSessionTimeout: the toast and supabase.auth.signOut().
HandleSessionTimeout(u) ==
  [u EXCEPT !.toast = "Session Expired", !.signedIn = FALSE,
            !.timeouts = @ + 1]

\* What startMonitoring may do when the monitor is already Monitoring: start
\* over with the new callbacks (TRUE) or keep the running monitor (FALSE).
StartOver == IF monitor.state = "Idle" THEN {TRUE} ELSE {TRUE, FALSE}

\* The effect of useSecurity in component c: monitoring starts and the
\* activity listeners are registered.
MountSecurity(c) ==
  /\ ~mounted[c]
  /\ mounted' = [mounted EXCEPT ![c] = TRUE]
  /\ \E over \in StartOver :
       IF over
         THEN /\ monitor' = StartMonitoring(now)
              /\ ui' = [ui EXCEPT !.warnings = 0, !.timeouts = 0]
              /\ lastCheck' = -1
              /\ hist' = [last |-> "start", activityAt |-> now,
                          resumed |-> FALSE]
         ELSE /\ hist' = [hist EXCEPT !.last = "start"]
              /\ UNCHANGED <<monitor, ui, lastCheck>>
  /\ UNCHANGED <<env, vaultVars, appVars, restVars, authVars, now>>

\* A plausible slip: the cleanup removes the listeners and leaves the monitor
\* running.
UnmountSecurityKeepsMonitor(c) ==
  /\ mounted[c]
  /\ mounted' = [mounted EXCEPT ![c] = FALSE]
  /\ hist' = [hist EXCEPT
                !.last = IF monitor.state = "Idle" THEN "stop idle"
                         ELSE "stop"]
  /\ UNCHANGED <<env, vaultVars, appVars, restVars, authVars, now, monitor, ui,
                 lastCheck>>

\* The cleanup of the effect of useSecurity in component c.
UnmountSecurity(c) ==
  /\ mounted[c]
  /\ mounted' = [mounted EXCEPT ![c] = FALSE]
  /\ monitor' = StopMonitoring(monitor)
  /\ hist' = [hist EXCEPT
                !.last = IF monitor.state = "Idle" THEN "stop idle"
                         ELSE "stop"]
  /\ UNCHANGED <<env, vaultVars, appVars, restVars, authVars, now, ui, lastCheck>>

\* A plausible slip: handleActivity does not reach the monitor.
UpdateActivityIgnored ==
  /\ \E c \in Components : mounted[c]
  /\ ui' = [ui EXCEPT !.warnings = 0, !.timeouts = 0]
  /\ lastCheck' = -1
  /\ hist' = [hist EXCEPT
                !.activityAt = now,
                !.resumed = monitor.warningFired /\ ~monitor.timeoutFired]
  /\ UNCHANGED <<env, vaultVars, appVars, restVars, authVars, now, mounted, monitor>>

\* A DOM event reaches handleActivity, which calls updateActivity.
UpdateActivity ==
  /\ \E c \in Components : mounted[c]
  /\ monitor' = MonitorUpdateActivity(monitor, now)
  /\ ui' = [ui EXCEPT !.warnings = 0, !.timeouts = 0]
  /\ lastCheck' = -1
  /\ hist' = [hist EXCEPT
                !.activityAt = now,
                !.resumed = monitor.warningFired /\ ~monitor.timeoutFired]
  /\ UNCHANGED <<env, vaultVars, appVars, restVars, authVars, now, mounted>>

\* The periodic check of the monitor, run by its timer when it is due.
PeriodicCheck ==
  /\ monitor.state = "Monitoring"
  /\ now >= monitor.due
  /\ \E warn \in {now - monitor.lastActivity >= WarningThreshold
                     /\ ~monitor.warningFired},
        out \in {now - monitor.lastActivity >= TimeoutThreshold
                    /\ ~monitor.timeoutFired} :
       /\ monitor' = [monitor EXCEPT
                        !.warningFired = @ \/ warn,
                        !.timeoutFired = @ \/ out,
                        !.due = now + 1]
       /\ \E warned \in {IF warn THEN HandleSessionWarning(ui) ELSE ui} :
            ui' = IF out THEN HandleSessionTimeout(warned) ELSE warned
  /\ lastCheck' = now
  /\ UNCHANGED <<env, vaultVars, appVars, restVars, authVars, now, mounted, hist>>

\* One poll interval passes; a check that is due runs first.
Tick ==
  /\ now < MaxTime
  /\ ~(monitor.state = "Monitoring" /\ now >= monitor.due)
  /\ now' = now + 1
  /\ UNCHANGED <<env, vaultVars, appVars, restVars, authVars, mounted, monitor, ui,
                 lastCheck, hist>>

MonitorInit ==
  /\ env = 1
  /\ VaultIdle
  /\ AppIdle
  /\ MonitorIdle
  /\ RestIdle

MonitorNext ==
  \/ \E c \in Components : MountSecurity(c)
  \/ \E c \in Components : UnmountSecurity(c)
  \/ UpdateActivity
  \/ PeriodicCheck
  \/ Tick

SpecMonitor == MonitorInit /\ [][MonitorNext]_vars

\* ------------------------------------------------------------------------
\* AuthFailureMonitor and the authentication handlers of useSecurity
\* ------------------------------------------------------------------------
\* A plausible slip: the lockout is asked for before the failure is recorded.
HandleAuthFailureAsksFirst(email) ==
  /\ Recorded(Identifiers) < MaxRecords
  /\ ledger' = [ledger EXCEPT ![email] = Append(@, DateNow)]
  /\ \E asked \in {IsLockedOut(failures, email, DateNow)} :
       /\ failures' = RecordFailure(asked.failures, email, DateNow)
       /\ \E remainingTime \in
              {IF asked.locked
                 THEN GetRemainingLockoutTime(asked.failures, email, DateNow)
                 ELSE 0} :
            authLast' = [op |-> "handleAuthFailure", id |-> email,
                         at |-> DateNow,
                         wasLocked |->
                           IsLockedOut(failures, email, DateNow).locked,
                         locked |-> asked.locked,
                         remaining |-> remainingTime,
                         minutes |-> Minutes(remainingTime)]
       /\ ui' = IF asked.locked
                  THEN [ui EXCEPT !.toast = "Account Temporarily Locked"]
                  ELSE ui
  /\ UNCHANGED <<env, vaultVars, appVars, restVars, now, mounted, monitor, lastCheck,
                 hist>>

\* useSecurity.handleAuthFailure(email): the failure is recorded, and when
\* the account is locked out the toast tells the minutes left.
HandleAuthFailure(email) ==
  /\ Recorded(Identifiers) < MaxRecords
  /\ ledger' = [ledger EXCEPT ![email] = Append(@, DateNow)]
  /\ \E asked \in {IsLockedOut(RecordFailure(failures, email, DateNow),
                                email, DateNow)} :
       /\ failures' = asked.failures
       /\ \E remainingTime \in
              {IF asked.locked
                 THEN GetRemainingLockoutTime(asked.failures, email, DateNow)
                 ELSE 0} :
            authLast' = [op |-> "handleAuthFailure", id |-> email,
                         at |-> DateNow,
                         wasLocked |->
                           IsLockedOut(failures, email, DateNow).locked,
                         locked |-> asked.locked,
                         remaining |-> remainingTime,
                         minutes |-> Minutes(remainingTime)]
       /\ ui' = IF asked.locked
                  THEN [ui EXCEPT !.toast = "Account Temporarily Locked"]
                  ELSE ui
  /\ UNCHANGED <<env, vaultVars, appVars, restVars, now, mounted, monitor, lastCheck,
                 hist>>

\* A plausible slip: the hook asks for a fixed identifier.
IsAccountLockedOfFirst(email) ==
  /\ \E asked \in {IsLockedOut(failures, "a@b.com", DateNow)} :
       /\ failures' = asked.failures
       /\ authLast' = [op |-> "isAccountLocked", id |-> email,
                       at |-> DateNow, wasLocked |-> asked.locked,
                       locked |-> asked.locked,
                       remaining |-> 0, minutes |-> 0]
  /\ UNCHANGED <<env, vaultVars, appVars, restVars, now, mounted, monitor, ui,
                 lastCheck, hist, ledger>>

\* useSecurity.isAccountLocked(email)
IsAccountLocked(email) ==
  /\ \E asked \in {IsLockedOut(failures, email, DateNow)} :
       /\ failures' = asked.failures
       /\ authLast' = [op |-> "isAccountLocked", id |-> email,
                       at |-> DateNow, wasLocked |-> asked.locked,
                       locked |-> asked.locked,
                       remaining |-> 0, minutes |-> 0]
  /\ UNCHANGED <<env, vaultVars, appVars, restVars, now, mounted, monitor, ui,
                 lastCheck, hist, ledger>>

\* A plausible slip: the hook forgets to pass the call on.
ClearAuthFailuresDropped(email) ==
  /\ ledger' = [ledger EXCEPT ![email] = <<>>]
  /\ authLast' = [op |-> "clearAuthFailures", id |-> email, at |-> DateNow,
                  wasLocked |-> IsLockedOut(failures, email, DateNow).locked,
                  locked |-> FALSE, remaining |-> 0, minutes |-> 0]
  /\ UNCHANGED <<env, vaultVars, appVars, restVars, now, mounted, monitor, ui,
                 lastCheck, hist, failures>>

\* useSecurity.clearAuthFailures(email)
ClearAuthFailures(email) ==
  /\ failures' = ClearFailures(failures, email)
  /\ ledger' = [ledger EXCEPT ![email] = <<>>]
  /\ authLast' = [op |-> "clearAuthFailures", id |-> email, at |-> DateNow,
                  wasLocked |-> IsLockedOut(failures, email, DateNow).locked,
                  locked |-> FALSE, remaining |-> 0, minutes |-> 0]
  /\ UNCHANGED <<env, vaultVars, appVars, restVars, now, mounted, monitor, ui,
                 lastCheck, hist>>

\* One step of the clock passes.
AuthTick ==
  /\ now < MaxAuthTime
  /\ now' = now + 1
  /\ UNCHANGED <<env, vaultVars, appVars, restVars, authVars, mounted, monitor, ui,
                 lastCheck, hist>>

AuthInit ==
  /\ env = 1
  /\ VaultIdle
  /\ AppIdle
  /\ MonitorIdle
  /\ RestIdle

AuthNext ==
  \/ \E email \in Identifiers : HandleAuthFailure(email)
  \/ \E email \in Identifiers : IsAccountLocked(email)
  \/ \E email \in Identifiers : ClearAuthFailures(email)
  \/ AuthTick

SpecAuth == AuthInit /\ [][AuthNext]_vars

\* ------------------------------------------------------------------------
\* Runs of the credential vault
\* ------------------------------------------------------------------------
VaultInit ==
  /\ env \in Envs
  /\ rng = 0
  /\ plain \in Plaintexts
  /\ encLog = <<>>
  /\ dec = NoDecrypt
  /\ AppIdle
  /\ MonitorIdle
  /\ RestIdle

\* A call of SecureStorage.encryptData(plain).
VaultEncrypt ==
  /\ dec.kind = "none"
  /\ Len(encLog) < MaxEncrypts
  /\ encLog' = Append(encLog, [env |-> env,
                               out |-> EncryptData(plain, EnvTable[env], rng)])
  /\ rng' = rng + 2
  /\ UNCHANGED <<env, plain, dec, appVars, monVars, restVars>>

\* The page is opened in another environment (another browser or device, a
\* changed user agent, language or screen).
EnvChange ==
  /\ dec.kind = "none"
  /\ \E e \in Envs \ {env} : env' = e
  /\ UNCHANGED <<vaultVars, appVars, monVars, restVars>>

\* decryptData on a blob an earlier encryptData call returned.
VaultDecryptBlob ==
  /\ dec.kind = "none"
  /\ \E k \in 1..Len(encLog) :
       /\ encLog[k].out.ok
       /\ dec' = [kind |-> "blob", src |-> k, pos |-> 0,
                  input |-> encLog[k].out.val, env |-> env,
                  out |-> DecryptData(encLog[k].out.val, EnvTable[env])]
  /\ UNCHANGED <<env, rng, plain, encLog, appVars, monVars, restVars>>

\* The decoded blob b with the byte at position p (1-based) changed by d.
Tamper(b, p, d) == [b EXCEPT ![p] = (b[p] + d) % 256]

\* decryptData on a blob with one byte of the decoded blob changed.
VaultDecryptTampered ==
  /\ dec.kind = "none"
  /\ \E k \in 1..Len(encLog) :
       /\ encLog[k].out.ok
       /\ LET b == Atob(encLog[k].out.val).val IN
          \E p \in 1..Len(b), d \in TamperDeltas :
            LET input == B64Encode(Tamper(b, p, d)) IN
            dec' = [kind |-> "tampered", src |-> k, pos |-> p,
                    input |-> input, env |-> env,
                    out |-> DecryptData(input, EnvTable[env])]
  /\ UNCHANGED <<env, rng, plain, encLog, appVars, monVars, restVars>>

\* The inputs of decryptData that are no blob: RawInputs, every proper prefix
\* of a blob (a truncated entry), and a blob followed by a line feed.
MalformedInputs ==
  RawInputs
    \cup UNION { { SubSeq(encLog[k].out.val, 1, n) :
                     n \in 0..Len(encLog[k].out.val) - 1 } :
                 k \in 1..Len(encLog) }
    \cup { encLog[k].out.val \o <<10>> : k \in 1..Len(encLog) }

\* decryptData on an input that is no blob.
VaultDecryptRaw ==
  /\ dec.kind = "none"
  /\ \E input \in MalformedInputs :
       dec' = [kind |-> "raw", src |-> 0, pos |-> 0, input |-> input,
               env |-> env, out |-> DecryptData(input, EnvTable[env])]
  /\ UNCHANGED <<env, rng, plain, encLog, appVars, monVars, restVars>>

\* encryptData and decryptData across environments.
VaultNext ==
  \/ VaultEncrypt
  \/ EnvChange
  \/ VaultDecryptBlob

\* decryptData on blobs, tampered blobs and malformed inputs.
InputsNext ==
  \/ VaultEncrypt
  \/ VaultDecryptBlob
  \/ VaultDecryptTampered
  \/ VaultDecryptRaw

SpecVault == VaultInit /\ [][VaultNext]_vars

\* The runs on blobs, tampered blobs and malformed inputs stay in
\* environment 1.
InputsInit ==
  /\ env = 1
  /\ rng = 0
  /\ plain \in Plaintexts
  /\ encLog = <<>>
  /\ dec = NoDecrypt
  /\ AppIdle
  /\ MonitorIdle
  /\ RestIdle

SpecInputs == InputsInit /\ [][InputsNext]_vars

\* ------------------------------------------------------------------------
\* The analyze-codebase edge function
\* ------------------------------------------------------------------------
\* String.prototype.trim
TrimStart(s) ==
  IF \A i \in 1..Len(s) : IsWhiteSpace(s[i]) THEN Len(s) + 1
  ELSE CHOOSE i \in 1..Len(s) :
         ~IsWhiteSpace(s[i]) /\ \A j \in 1..i - 1 : IsWhiteSpace(s[j])

TrimEnd(s) ==
  IF \A i \in 1..Len(s) : IsWhiteSpace(s[i]) THEN 0
  ELSE CHOOSE i \in 1..Len(s) :
         ~IsWhiteSpace(s[i]) /\ \A j \in i + 1..Len(s) : IsWhiteSpace(s[j])

Trim(s) == SubSeq(s, TrimStart(s), TrimEnd(s))

\* v[0]: a TypeError on null and undefined.
First(v) ==
  CASE v.t \in {"null", "undefined"} -> Err
    [] v.t = "arr" -> Ok(IF v.es = <<>> THEN JUndefined ELSE v.es[1])
    [] v.t = "str" -> Ok(IF v.s = <<>> THEN JUndefined ELSE JStr(<<v.s[1]>>))
    [] v.t = "obj" -> GetProp(v, <<48>>)
    [] OTHER -> Ok(JUndefined)

\* v.trim(): a TypeError unless v is a string.
TrimOf(v) == IF v.t = "str" THEN Ok(JStr(Trim(v.s))) ELSE Err

\* r.val[k] when r is a value, the error of r otherwise.
Then(r, Step(_)) == IF r.ok THEN Step(r.val) ELSE Err

\* data.choices[0].message.content.trim()
OpenAIContent(data) ==
  Then(Then(Then(Then(GetProp(data, <<99, 104, 111, 105, 99, 101, 115>>), First),
                 LAMBDA c : GetProp(c, <<109, 101, 115, 115, 97, 103, 101>>)),
            LAMBDA m : GetProp(m, <<99, 111, 110, 116, 101, 110, 116>>)),
       TrimOf)

\* data.content[0].text.trim()
ClaudeContent(data) ==
  Then(Then(Then(GetProp(data, <<99, 111, 110, 116, 101, 110, 116>>), First),
            LAMBDA c : GetProp(c, <<116, 101, 120, 116>>)),
       TrimOf)

\* userApiKeys?.openai || Deno.env.get('OPENAI_API_KEY'), and the same for
\* claude: a TypeError never, the optional chain stops at null and undefined.
KeyOrEnv(userApiKeys, provider, fromEnv) ==
  IF userApiKeys.t \in {"null", "undefined"} THEN fromEnv
  ELSE IF Truthy(GetProp(userApiKeys, provider).val)
    THEN GetProp(userApiKeys, provider).val
  ELSE fromEnv

\* The methods, bodies, environment keys and file queries of the model.
EdgeMethods == {"OPTIONS", "POST"}

EdgeUserKeys ==
  { JUndefined, JNull,
    JObj(<<[k |-> <<111, 112, 101, 110, 97, 105>>, v |-> JStr(<<115, 107, 45, 49>>)],
           [k |-> <<99, 108, 97, 117, 100, 101>>, v |-> JStr(<<>>)]>>),
    JObj(<<[k |-> <<111, 112, 101, 110, 97, 105>>, v |-> JStr(<<>>)],
           [k |-> <<99, 108, 97, 117, 100, 101>>, v |-> JStr(<<99, 107, 45, 49>>)]>>),
    JObj(<<[k |-> <<111, 112, 101, 110, 97, 105>>, v |-> JStr(<<115, 107, 45, 49>>)],
           [k |-> <<99, 108, 97, 117, 100, 101>>, v |-> JStr(<<99, 107, 45, 49>>)]>>) }

EdgeBodies ==
  { JsonStringify(JObj(<<[k |-> <<115, 101, 115, 115, 105, 111, 110, 73, 100>>, v |-> s],
                         [k |-> <<117, 115, 101, 114, 65, 112, 105, 75, 101, 121, 115>>, v |-> u]>>)) :
      s \in {JUndefined, JNull, JStr(<<115, 49>>)}, u \in EdgeUserKeys }
    \cup { <<110, 117, 108, 108>>, <<123, 111, 111, 112, 115>>, <<53>> }

EdgeEnvKeys(name) == {JUndefined, JStr(name)}

\* What the query of uploaded_files gives: an error, no data, or the files
\* of the session (their number).
Files(n) == [error |-> FALSE, null |-> FALSE, length |-> n]

EdgeFiles ==
  {[error |-> TRUE, null |-> TRUE, length |-> 0],
   [error |-> FALSE, null |-> TRUE, length |-> 0],
   Files(0), Files(1), Files(2)}

\* What a provider gives: fetch rejects, a status that is not ok, a body that
\* is no JSON, or the JSON data.
Rejected == [kind |-> "rejected", data |-> JUndefined]

NotOk == [kind |-> "not ok", data |-> JUndefined]

NoJson == [kind |-> "no json", data |-> JUndefined]

Data(v) == [kind |-> "data", data |-> v]

OpenAIData(content) ==
  JObj(<<[k |-> <<99, 104, 111, 105, 99, 101, 115>>,
          v |-> JArr(<<JObj(<<[k |-> <<109, 101, 115, 115, 97, 103, 101>>,
                               v |-> JObj(<<[k |-> <<99, 111, 110, 116, 101, 110, 116>>,
                                             v |-> content]>>)]>>)>>)]>>)

ClaudeData(text) ==
  JObj(<<[k |-> <<99, 111, 110, 116, 101, 110, 116>>,
          v |-> JArr(<<JObj(<<[k |-> <<116, 101, 120, 116>>, v |-> text]>>)>>)]>>)

Contents == {JStr(<<32, 103, 114, 97, 112, 104, 32, 84, 68, 10>>), JStr(<<32, 10>>), JStr(<<>>), JNull}

OpenAIResults ==
  {Rejected, NotOk, NoJson, Data(JObj(<<>>)),
   Data(JObj(<<[k |-> <<99, 104, 111, 105, 99, 101, 115>>, v |-> JArr(<<>>)]>>))}
    \cup {Data(OpenAIData(c)) : c \in Contents}

ClaudeResults ==
  {Rejected, NotOk, NoJson, Data(JObj(<<>>))}
    \cup {Data(ClaudeData(c)) : c \in Contents}

\* new Response(JSON.stringify(body), { status })
Respond(e, status, body) ==
  [e EXCEPT !.phase = "done", !.status = status,
            !.response = JsonStringify(body)]

ErrorBody == JObj(<<[k |-> <<101, 114, 114, 111, 114>>, v |-> JStr(<<101, 114, 114, 111, 114>>)]>>)

\* { mermaidCode, fileCount: files.length }
SuccessBody(e) ==
  JObj(<<[k |-> <<109, 101, 114, 109, 97, 105, 100, 67, 111, 100, 101>>, v |-> e.mermaidCode],
         [k |-> <<102, 105, 108, 101, 67, 111, 117, 110, 116>>, v |-> JNum(e.files.length)]>>)

\* The end of the handler, after the providers.
Finish(e) ==
  IF ~Truthy(e.mermaidCode) THEN Respond(e, 500, ErrorBody)
  ELSE Respond(e, 200, SuccessBody(e))

\* A plausible slip: Claude is asked whenever its key is there.
AfterOpenAIAlwaysClaude(e) ==
  IF Truthy(e.claudeApiKey)
    THEN [e EXCEPT !.phase = "claude", !.calls = Append(@, "claude")]
  ELSE Finish(e)

\* The handler after the OpenAI block: Claude is asked when there is no
\* diagram yet and a Claude key is there.
AfterOpenAI(e) ==
  IF ~Truthy(e.mermaidCode) /\ Truthy(e.claudeApiKey)
    THEN [e EXCEPT !.phase = "claude", !.calls = Append(@, "claude")]
  ELSE Finish(e)

\* A plausible slip: the handler goes on without a session id.
ValidateSkipsSession(e, sessionId) ==
  IF ~Truthy(e.openAIApiKey) /\ ~Truthy(e.claudeApiKey)
    THEN Respond(e, 400, ErrorBody)
  ELSE IF e.files.error THEN Respond(e, 500, ErrorBody)
  ELSE IF e.files.null \/ e.files.length = 0
    THEN Respond(e, 400, ErrorBody)
  ELSE IF Truthy(e.openAIApiKey)
    THEN [e EXCEPT !.phase = "openai", !.calls = Append(@, "openai"),
                   !.openai = "pending"]
  ELSE AfterOpenAI(e)

\* The handler from the key check to the first provider call.
Validate(e, sessionId) ==
  IF ~Truthy(e.openAIApiKey) /\ ~Truthy(e.claudeApiKey)
    THEN Respond(e, 400, ErrorBody)
  ELSE IF ~Truthy(sessionId) THEN Respond(e, 400, ErrorBody)
  ELSE IF e.files.error THEN Respond(e, 500, ErrorBody)
  ELSE IF e.files.null \/ e.files.length = 0
    THEN Respond(e, 400, ErrorBody)
  ELSE IF Truthy(e.openAIApiKey)
    THEN [e EXCEPT !.phase = "openai", !.calls = Append(@, "openai"),
                   !.openai = "pending"]
  ELSE AfterOpenAI(e)

\* A request arrives: the handler runs up to its first provider call or to
\* its response.
EdgeReceive(method, body, envOpenAI, envClaude, files) ==
  /\ edge.phase = "idle"
  /\ \E e \in {[edge EXCEPT !.method = method, !.body = body,
                            !.files = files]},
        parsed \in {JsonParse(body)} :
       edge' =
         IF method = "OPTIONS"
           THEN [e EXCEPT !.phase = "done", !.status = 200]
         ELSE IF ~parsed.ok \/ parsed.val.t = "null"
           THEN Respond(e, 500, ErrorBody)
         ELSE With(GetProp(parsed.val, <<117, 115, 101, 114, 65, 112, 105, 75, 101, 121, 115>>).val, LAMBDA keys :
                Validate(
                  [e EXCEPT
                     !.sessionId = GetProp(parsed.val, <<115, 101, 115, 115, 105, 111, 110, 73, 100>>).val,
                     !.openAIApiKey =
                        KeyOrEnv(keys, <<111, 112, 101, 110, 97, 105>>, envOpenAI),
                     !.claudeApiKey =
                        KeyOrEnv(keys, <<99, 108, 97, 117, 100, 101>>, envClaude)],
                  GetProp(parsed.val, <<115, 101, 115, 115, 105, 111, 110, 73, 100>>).val))
  /\ UNCHANGED <<env, vaultVars, appVars, monVars, limiter, attempts, page,
                 database, cart>>

\* The OpenAI call ends.
EdgeOpenAIDone(result) ==
  /\ edge.phase = "openai"
  /\ \E content \in {IF result.kind = "data" THEN OpenAIContent(result.data)
                     ELSE Err} :
       edge' =
         IF content.ok
           THEN AfterOpenAI([edge EXCEPT
                               !.mermaidCode = content.val,
                               !.openai = IF Truthy(content.val)
                                            THEN "diagram" ELSE "empty"])
         ELSE IF ~Truthy(edge.claudeApiKey)
           THEN Respond([edge EXCEPT !.openai = "failed"], 500, ErrorBody)
         ELSE AfterOpenAI([edge EXCEPT !.openai = "failed"])
  /\ UNCHANGED <<env, vaultVars, appVars, monVars, limiter, attempts, page,
                 database, cart>>

\* The Claude call ends.
EdgeClaudeDone(result) ==
  /\ edge.phase = "claude"
  /\ \E content \in {IF result.kind = "data" THEN ClaudeContent(result.data)
                     ELSE Err} :
       edge' =
         IF content.ok THEN Finish([edge EXCEPT !.mermaidCode = content.val])
         ELSE Respond(edge, 500, ErrorBody)
  /\ UNCHANGED <<env, vaultVars, appVars, monVars, limiter, attempts, page,
                 database, cart>>

EdgeInit ==
  /\ env = 1
  /\ VaultIdle
  /\ AppIdle
  /\ MonitorIdle
  /\ RestIdle

EdgeNext ==
  \/ \E method \in EdgeMethods, body \in EdgeBodies,
        envOpenAI \in EdgeEnvKeys(<<101, 110, 118, 45, 111>>),
        envClaude \in EdgeEnvKeys(<<101, 110, 118, 45, 99>>), files \in EdgeFiles :
       EdgeReceive(method, body, envOpenAI, envClaude, files)
  \/ \E result \in OpenAIResults : EdgeOpenAIDone(result)
  \/ \E result \in ClaudeResults : EdgeClaudeDone(result)

SpecEdge == EdgeInit /\ [][EdgeNext]_vars
\* ------------------------------------------------------------------------
\* The per-user rate limit of the sample backend
\* ------------------------------------------------------------------------

\* history.filter(timestamp => timestamp > windowStart)
FilterRecentDropsEarly(history, windowStart) ==
  SelectSeq(history, LAMBDA timestamp : timestamp > windowStart + 1)
FilterRecent(history, windowStart) ==
  SelectSeq(history, LAMBDA timestamp : timestamp > windowStart)

\* userRequests.get(userId) || []
GetHistory(userRequests, userId) ==
  IF userRequests[userId].has THEN userRequests[userId].list ELSE <<>>

\* The occasional sweep over every user's history.
CleanUp(userRequests, windowStart) ==
  [id \in DOMAIN userRequests |->
     IF ~userRequests[id].has THEN NoEntry
     ELSE With(FilterRecent(userRequests[id].list, windowStart),
               LAMBDA filteredHistory :
                 IF Len(filteredHistory) = 0 THEN NoEntry
                 ELSE Entry(filteredHistory))]

Logged(l, user, status) ==
  [l EXCEPT !.log = Append(@, [user |-> user, at |-> l.now,
                               status |-> status])]

\* One request goes through the middleware; sweep is the outcome of
\* Math.random() < 0.01.
LimiterRequest(user, sweep) ==
  /\ Len(limiter.log) < MaxRequests
  /\ \E windowStart \in {limiter.now - LimitWindowMs} :
     \E userHistory \in
          {IF user = Anonymous THEN <<>>
           ELSE FilterRecent(GetHistory(limiter.userRequests, user),
                             windowStart)} :
       limiter' =
         IF user = Anonymous THEN Logged(limiter, user, 200)
         ELSE IF Len(userHistory) >= LimitMax THEN Logged(limiter, user, 429)
         ELSE With([limiter.userRequests EXCEPT
                      ![user] = Entry(Append(userHistory, limiter.now))],
                   LAMBDA stored :
                     [Logged(limiter, user, 200) EXCEPT
                        !.userRequests =
                           IF sweep THEN CleanUp(stored, windowStart)
                           ELSE stored])
  /\ UNCHANGED <<env, vaultVars, appVars, monVars, edge, attempts, page,
                 database, cart>>

\* Date.now() advances.
LimiterTick ==
  /\ limiter.now < MaxLimitTime
  /\ limiter' = [limiter EXCEPT !.now = @ + 1]
  /\ UNCHANGED <<env, vaultVars, appVars, monVars, edge, attempts, page,
                 database, cart>>

LimiterInit ==
  /\ env = 1
  /\ VaultIdle
  /\ AppIdle
  /\ MonitorIdle
  /\ RestIdle

LimiterNext ==
  \/ \E user \in LimitUsers \cup {Anonymous}, sweep \in BOOLEAN :
       LimiterRequest(user, sweep)
  \/ LimiterTick

SpecLimiter == LimiterInit /\ [][LimiterNext]_vars
\* ------------------------------------------------------------------------
\* RateLimiter
\* ------------------------------------------------------------------------

\* this.attempts.get(identifier) || []
GetAttempts(r, identifier) ==
  IF r.attempts[identifier].has THEN r.attempts[identifier].list ELSE <<>>

\* attempts.filter(time => now - time < this.windowMs)
ValidAttempts(list, t) ==
  SelectSeq(list, LAMBDA time : t - time < RateWindowMs)

\* Math.min(...attempts) of a list that is not empty.
MinOf(list) ==
  CHOOSE time \in {list[i] : i \in DOMAIN list} :
    \A i \in DOMAIN list : time <= list[i]

\* Math.max(0, n)
AtLeastZero(n) == IF n > 0 THEN n ELSE 0

\* The value isRateLimited(identifier) returns.
IsRateLimitedResult(r, identifier) ==
  Len(ValidAttempts(GetAttempts(r, identifier), r.now)) >= RateMaxAttempts

\* The value getRemainingAttempts(identifier) returns.
GetRemainingAttemptsResult(r, identifier) ==
  AtLeastZero(RateMaxAttempts
                - Len(ValidAttempts(GetAttempts(r, identifier), r.now)))

\* The value getTimeUntilReset(identifier) returns.
GetTimeUntilResetResult(r, identifier) ==
  IF Len(GetAttempts(r, identifier)) = 0 THEN 0
  ELSE AtLeastZero(MinOf(GetAttempts(r, identifier)) + RateWindowMs - r.now)

Returned(r, op, identifier, result) ==
  [r EXCEPT !.last = [op |-> op, id |-> identifier, at |-> r.now,
                      result |-> result]]

\* isRateLimited(identifier): the pruned list is stored.
RateIsRateLimited(identifier) ==
  /\ attempts' =
       [Returned(attempts, "isRateLimited", identifier,
                 IF IsRateLimitedResult(attempts, identifier) THEN 1 ELSE 0)
          EXCEPT !.attempts[identifier] =
                    Entry(ValidAttempts(GetAttempts(attempts, identifier),
                                        attempts.now))]
  /\ UNCHANGED <<env, vaultVars, appVars, monVars, edge, limiter, page,
                 database, cart>>

\* recordAttempt(identifier)
RateRecordAttempt(identifier) ==
  /\ Len(attempts.recorded["u1"]) + Len(attempts.recorded["u2"])
       < MaxRateRecords
  /\ attempts' =
       [Returned(attempts, "recordAttempt", identifier, 0) EXCEPT
          !.attempts[identifier] =
             Entry(Append(GetAttempts(attempts, identifier), attempts.now)),
          !.recorded[identifier] = Append(@, attempts.now)]
  /\ UNCHANGED <<env, vaultVars, appVars, monVars, edge, limiter, page,
                 database, cart>>

\* getRemainingAttempts(identifier): nothing is stored.
RateGetRemainingAttempts(identifier) ==
  /\ attempts' = Returned(attempts, "getRemainingAttempts", identifier,
                          GetRemainingAttemptsResult(attempts, identifier))
  /\ UNCHANGED <<env, vaultVars, appVars, monVars, edge, limiter, page,
                 database, cart>>

\* getTimeUntilReset(identifier): nothing is stored.
RateGetTimeUntilReset(identifier) ==
  /\ attempts' = Returned(attempts, "getTimeUntilReset", identifier,
                          GetTimeUntilResetResult(attempts, identifier))
  /\ UNCHANGED <<env, vaultVars, appVars, monVars, edge, limiter, page,
                 database, cart>>

\* Date.now() advances.
RateTick ==
  /\ attempts.now < MaxRateTime
  /\ attempts' = [attempts EXCEPT !.now = @ + 1]
  /\ UNCHANGED <<env, vaultVars, appVars, monVars, edge, limiter, page,
                 database, cart>>

RateInit ==
  /\ env = 1
  /\ VaultIdle
  /\ AppIdle
  /\ MonitorIdle
  /\ RestIdle

RateNext ==
  \/ \E identifier \in RateIdentifiers : RateIsRateLimited(identifier)
  \/ \E identifier \in RateIdentifiers : RateRecordAttempt(identifier)
  \/ \E identifier \in RateIdentifiers : RateGetRemainingAttempts(identifier)
  \/ \E identifier \in RateIdentifiers : RateGetTimeUntilReset(identifier)
  \/ RateTick

SpecRate == RateInit /\ [][RateNext]_vars
\* ------------------------------------------------------------------------
\* The Index page
\* ------------------------------------------------------------------------

Task(kind, sid, user, then) ==
  [kind |-> kind, sid |-> sid, user |-> user, then |-> then]

Without(tasks, i) ==
  SubSeq(tasks, 1, i - 1) \o SubSeq(tasks, i + 1, Len(tasks))

NewSessionId(p) == IF p.db.created = 0 THEN "N1" ELSE "N2"

\* createNewSession() of a render in which the state user was user: up to
\* its insert into chat_sessions.
CreateNewSession(p, user, then) ==
  IF user = NoUser THEN p
  ELSE [p EXCEPT !.tasks = Append(@, Task("create", NoSession, user, then))]

\* supabase.auth.getUser() resolves.
PageGetUserResolved ==
  /\ page.getUser = "pending"
  /\ page' =
       With([page EXCEPT !.getUser = "resolved", !.user = page.signedIn],
            LAMBDA p : IF page.signedIn # NoUser
                         THEN CreateNewSession(p, FirstRenderUser, "")
                         ELSE p)
  /\ UNCHANGED <<env, vaultVars, appVars, monVars, edge, limiter, attempts,
                 database, cart>>

\* The callback of onAuthStateChange runs with the session of user, or with
\* no session.
PageAuthStateChange(user) ==
  /\ page.authEvents < MaxAuthEvents
  /\ user # page.signedIn
  /\ page' =
       With([page EXCEPT !.authEvents = @ + 1, !.signedIn = user,
                         !.user = user],
            LAMBDA p : IF user # NoUser /\ FirstRenderSessionId = NoSession
                         THEN CreateNewSession(p, FirstRenderUser, "")
                         ELSE p)
  /\ UNCHANGED <<env, vaultVars, appVars, monVars, edge, limiter, attempts,
                 database, cart>>

\* handleFilesUploaded(newFiles), up to its insert.
PageFilesUploaded ==
  /\ page.user # NoUser
  /\ page.edits < MaxEdits
  /\ page' =
       IF page.sessionId = NoSession
         THEN [page EXCEPT !.edits = @ + 1, !.dropped = @ + 1]
       ELSE [page EXCEPT
               !.edits = @ + 1, !.edited = TRUE,
               !.tasks = Append(@, Task("upload", page.sessionId,
                                        page.user, ""))]
  /\ UNCHANGED <<env, vaultVars, appVars, monVars, edge, limiter, attempts,
                 database, cart>>

\* handleSendMessage(content), up to its first await.
PageSendMessage ==
  /\ page.user # NoUser
  /\ page.edits < MaxEdits
  /\ page' =
       IF page.sessionId = NoSession
         THEN [page EXCEPT !.edits = @ + 1, !.dropped = @ + 1]
       ELSE [page EXCEPT
               !.edits = @ + 1, !.edited = TRUE,
               !.messages = Append(@, "q"), !.isLoading = TRUE,
               !.tasks = Append(@, Task("send", page.sessionId,
                                        page.user, ""))]
  /\ UNCHANGED <<env, vaultVars, appVars, monVars, edge, limiter, attempts,
                 database, cart>>

\* handleSessionSelect(selectedSessionId), up to its first query.
PageSessionSelect(selectedSessionId) ==
  /\ page.user # NoUser
  /\ page.selects < MaxSelects
  /\ selectedSessionId \in page.db.sessions
  /\ page' = [page EXCEPT
                !.selects = @ + 1,
                !.sessionId = selectedSessionId,
                !.messages = <<>>, !.uploadedFiles = <<>>,
                !.tasks = Append(@, Task("messages", selectedSessionId,
                                         page.user, ""))]
  /\ UNCHANGED <<env, vaultVars, appVars, monVars, edge, limiter, attempts,
                 database, cart>>

\* handleNewSession()
PageNewSession ==
  /\ page.user # NoUser
  /\ page.edits < MaxEdits
  /\ page' = CreateNewSession(
               [page EXCEPT !.edits = @ + 1, !.messages = <<>>,
                            !.uploadedFiles = <<>>, !.edited = TRUE],
               FirstRenderUser, "")
  /\ UNCHANGED <<env, vaultVars, appVars, monVars, edge, limiter, attempts,
                 database, cart>>

\* handleClearSession(), up to its delete.
PageClearSession ==
  /\ page.user # NoUser
  /\ page.edits < MaxEdits
  /\ page' =
       IF page.sessionId = NoSession THEN [page EXCEPT !.edits = @ + 1]
       ELSE [page EXCEPT
               !.edits = @ + 1, !.edited = TRUE,
               !.tasks = Append(@, Task("clear", page.sessionId,
                                        page.user, ""))]
  /\ UNCHANGED <<env, vaultVars, appVars, monVars, edge, limiter, attempts,
                 database, cart>>

\* The page after request t, which is no longer in flight in p, came back.
Settled(p, t, ok) ==
  CASE t.kind = "create" ->
         With(IF ok
                THEN [p EXCEPT !.sessionId = NewSessionId(p),
                               !.db.sessions = @ \cup {NewSessionId(p)},
                               !.db.created = @ + 1]
                ELSE [p EXCEPT !.toast = "Failed to create chat session"],
              LAMBDA q : IF t.then = "cleared"
                           THEN [q EXCEPT !.toast = "Session cleared"]
                           ELSE q)
    [] t.kind = "messages" ->
         IF ok
           THEN [p EXCEPT !.messages = p.db.messages[t.sid],
                          !.tasks = Append(@, Task("files", t.sid, t.user,
                                                   ""))]
           ELSE [p EXCEPT !.toast = "Failed to load session data",
                          !.loadFailed = TRUE]
    [] t.kind = "files" ->
         IF ok
           THEN [p EXCEPT !.uploadedFiles = p.db.files[t.sid]]
           ELSE [p EXCEPT !.toast = "Failed to load session data",
                          !.loadFailed = TRUE]
    [] t.kind = "upload" ->
         IF ok
           THEN [p EXCEPT !.db.files[t.sid] = Append(@, "new.ts"),
                          !.uploadedFiles = Append(@, "new.ts"),
                          !.toast = "Files uploaded"]
           ELSE [p EXCEPT !.toast = "Failed to save file metadata"]
    [] t.kind = "send" ->
         IF ok
           THEN [p EXCEPT !.db.messages[t.sid] = @ \o <<"q", "r">>,
                          !.messages = Append(@, "r"),
                          !.isLoading = FALSE]
           ELSE [p EXCEPT !.toast = "Failed to send message",
                          !.isLoading = FALSE]
    [] t.kind = "clear" ->
         IF ok
           THEN CreateNewSession(
                  [p EXCEPT !.db.sessions = @ \ {t.sid},
                            !.db.messages[t.sid] = <<>>,
                            !.db.files[t.sid] = <<>>,
                            !.uploadedFiles = <<>>, !.messages = <<>>],
                  t.user, "cleared")
           ELSE [p EXCEPT !.toast = "Failed to clear session"]

\* Request i in flight comes back, with data or with an error, and the
\* handler that awaits it runs up to its next await or to its end.
PageSettle(i, ok) ==
  /\ i \in DOMAIN page.tasks
  /\ page' = Settled([page EXCEPT !.tasks = Without(@, i)], page.tasks[i],
                     ok)
  /\ UNCHANGED <<env, vaultVars, appVars, monVars, edge, limiter, attempts,
                 database, cart>>

\* What runs without the user: promises settle.
PageInternal ==
  \/ PageGetUserResolved
  \/ \E i \in 1..(MaxSelects + MaxEdits),
        ok \in BOOLEAN : PageSettle(i, ok)

PageInit ==
  /\ env = 1
  /\ VaultIdle
  /\ AppIdle
  /\ MonitorIdle
  /\ RestIdle

PageNext ==
  \/ PageInternal
  \/ \E user \in PageUsers \cup {NoUser} : PageAuthStateChange(user)
  \/ PageFilesUploaded
  \/ PageSendMessage
  \/ \E selectedSessionId \in AllSessions :
       PageSessionSelect(selectedSessionId)
  \/ PageNewSession
  \/ PageClearSession

SpecPage == PageInit /\ [][PageNext]_vars

\* Every settled promise has its continuation run, and every request comes
\* back.
SpecPageFair == SpecPage /\ WF_vars(PageInternal)
\* ------------------------------------------------------------------------
\* The Database singleton of the sample backend
\* ------------------------------------------------------------------------

\* setupEventHandlers(): one more set of listeners on mongoose.connection
\* and on the process.
SetupEventHandlers(d) ==
  [d EXCEPT !.handlers = @ + 1, !.registered = @ + 1]

\* disconnect() up to its await, run times times in a row.
Disconnecting(d, times) ==
  With([d EXCEPT !.invoked = 0, !.registered = 0], LAMBDA e :
    IF e.isConnected /\ e.connection # "null"
      THEN [e EXCEPT !.closing = @ + times]
      ELSE e)

\* connect() up to its await of mongoose.connect, or to its early return.
DbConnect ==
  /\ ~database.exited
  /\ database.calls < MaxConnectCalls
  /\ database' =
       IF database.isConnected THEN [database EXCEPT !.calls = @ + 1]
       ELSE [database EXCEPT !.calls = @ + 1, !.connecting = @ + 1,
                             !.invoked = @ + 1]
  /\ UNCHANGED <<env, vaultVars, appVars, monVars, edge, limiter, attempts,
                 page, cart>>

\* mongoose.connect settles and connect() runs to its end.
DbConnectSettled(ok) ==
  /\ ~database.exited
  /\ database.connecting > 0
  /\ database' =
       IF ok
         THEN SetupEventHandlers(
                [database EXCEPT !.connecting = @ - 1,
                                 !.connection = "mongoose",
                                 !.isConnected = TRUE])
         ELSE [database EXCEPT !.connecting = @ - 1, !.isConnected = FALSE]
  /\ UNCHANGED <<env, vaultVars, appVars, monVars, edge, limiter, attempts,
                 page, cart>>

\* The connection emits 'connected', 'error' or 'disconnected' and the
\* registered listeners run.
DbConnectionEvent(event) ==
  /\ ~database.exited
  /\ database.handlers > 0
  /\ database.events < MaxDbEvents
  /\ database' = [database EXCEPT !.events = @ + 1,
                                  !.isConnected = (event = "connected")]
  /\ UNCHANGED <<env, vaultVars, appVars, monVars, edge, limiter, attempts,
                 page, cart>>

\* disconnect() up to its await of mongoose.connection.close().
DbDisconnect ==
  /\ ~database.exited
  /\ database.events < MaxDbEvents
  /\ database' = [Disconnecting(database, 1) EXCEPT !.events = @ + 1]
  /\ UNCHANGED <<env, vaultVars, appVars, monVars, edge, limiter, attempts,
                 page, cart>>

\* mongoose.connection.close() settles; after a signal the process exits.
DbCloseSettled(ok) ==
  /\ ~database.exited
  /\ database.closing > 0
  /\ database' =
       [database EXCEPT !.closing = @ - 1,
                        !.isConnected = IF ok THEN FALSE ELSE @,
                        !.exited = database.exiting]
  /\ UNCHANGED <<env, vaultVars, appVars, monVars, edge, limiter, attempts,
                 page, cart>>

\* SIGINT or SIGTERM: every registered handler runs disconnect() and then
\* ends the process.
DbSignal ==
  /\ ~database.exited
  /\ ~database.exiting
  /\ database.handlers > 0
  /\ database' =
       With(Disconnecting(database, database.handlers), LAMBDA d :
         [d EXCEPT !.exiting = TRUE, !.exited = (d.closing = 0)])
  /\ UNCHANGED <<env, vaultVars, appVars, monVars, edge, limiter, attempts,
                 page, cart>>

DbInit ==
  /\ env = 1
  /\ VaultIdle
  /\ AppIdle
  /\ MonitorIdle
  /\ RestIdle

DbNext ==
  \/ DbConnect
  \/ \E ok \in BOOLEAN : DbConnectSettled(ok)
  \/ \E event \in {"connected", "error", "disconnected"} :
       DbConnectionEvent(event)
  \/ DbDisconnect
  \/ \E ok \in BOOLEAN : DbCloseSettled(ok)
  \/ DbSignal

SpecDb == DbInit /\ [][DbNext]_vars
\* ------------------------------------------------------------------------
\* CartProvider of the sample frontend
\* ------------------------------------------------------------------------

\* cartItems.findIndex(item => item.product._id === product._id), from 1,
\* and 0 when there is none.
FindIndex(items, product) ==
  IF \E i \in DOMAIN items : items[i].product = product
    THEN CHOOSE i \in DOMAIN items :
           /\ items[i].product = product
           /\ \A j \in 1..(i - 1) : items[j].product # product
    ELSE 0

\* The newCartItems of addToCart(product, quantity) computed from items.
AddedTo(items, product, quantity, at) ==
  With(FindIndex(items, product), LAMBDA existingItemIndex :
    IF existingItemIndex > 0
      THEN [items EXCEPT ![existingItemIndex].quantity = @ + quantity]
      ELSE Append(items, [product |-> product, quantity |-> quantity,
                          addedAt |-> at]))

\* addToCart(product, quantity) of the last render, up to its await of
\* updateServerCart, or to its end when no user is logged in.
CartAddToCart(product, quantity) ==
  /\ cart.adds < MaxAdds
  /\ \E newCartItems \in {AddedTo(cart.rendered, product, quantity,
                                  cart.adds)} :
       cart' = [cart EXCEPT
                  !.adds = @ + 1,
                  !.asked[product] = @ + quantity,
                  !.cartItems = newCartItems,
                  !.isLoading = cart.user,
                  !.inFlight = IF cart.user THEN Append(@, newCartItems)
                               ELSE @]
  /\ UNCHANGED <<env, vaultVars, appVars, monVars, edge, limiter, attempts,
                 page, database>>

\* The PUT of updateServerCart settles and addToCart runs to its end.
CartServerSettled(i, ok) ==
  /\ i \in DOMAIN cart.inFlight
  /\ cart' = [cart EXCEPT
                !.server = IF ok THEN cart.inFlight[i] ELSE @,
                !.inFlight = SubSeq(@, 1, i - 1)
                               \o SubSeq(@, i + 1, Len(@)),
                !.isLoading = FALSE]
  /\ UNCHANGED <<env, vaultVars, appVars, monVars, edge, limiter, attempts,
                 page, database>>

\* React applies the state updates: the component renders again and its
\* functions see the new cartItems.
CartRender ==
  /\ cart.rendered # cart.cartItems
  /\ cart' = [cart EXCEPT !.rendered = cart.cartItems]
  /\ UNCHANGED <<env, vaultVars, appVars, monVars, edge, limiter, attempts,
                 page, database>>

\* useAuth gives a user, or none any more.
CartUserChange ==
  /\ cart.logins < MaxLogins
  /\ cart' = [cart EXCEPT !.logins = @ + 1, !.user = ~@]
  /\ UNCHANGED <<env, vaultVars, appVars, monVars, edge, limiter, attempts,
                 page, database>>

CartInit ==
  /\ env = 1
  /\ VaultIdle
  /\ AppIdle
  /\ MonitorIdle
  /\ RestIdle

CartNext ==
  \/ \E product \in Products, quantity \in Quantities :
       CartAddToCart(product, quantity)
  \/ \E i \in 1..MaxAdds, ok \in BOOLEAN : CartServerSettled(i, ok)
  \/ CartRender
  \/ CartUserChange

SpecCart == CartInit /\ [][CartNext]_vars
\* ------------------------------------------------------------------------
\* Properties of the credential vault
\* ------------------------------------------------------------------------
\* The decryptData call of the run ran under the fingerprint of the
\* encryptData call whose blob it was given.
SameFingerprint ==
  GetDeviceFingerprint(EnvTable[dec.env])
    = GetDeviceFingerprint(EnvTable[encLog[dec.src].env])

\* C1: with the device fingerprint held fixed, decryptData(encryptData(s))
\* returns exactly s, for every plaintext string s.
RoundTrip ==
  (dec.kind = "blob" /\ SameFingerprint) => dec.out = Ok(plain)

\* After a change of any single byte of the decoded blob (salt, iv,
\* ciphertext or tag region) decryptData fails.
TamperDetected ==
  dec.kind = "tampered" => dec.out = Err

\* C2: decryptData fails after a change of any single byte of the decoded
\* blob, and whatever it is called on, it never returns a plaintext different
\* from the one that was encrypted.
TamperDetection ==
  /\ TamperDetected
  /\ (dec.kind # "none" /\ dec.out.ok) => dec.out.val = plain

\* A changed byte of the ciphertext region was rejected.
TamperedCiphertextRejected ==
  /\ dec.kind = "tampered"
  /\ dec.pos > SALT_LENGTH + IV_LENGTH
  /\ dec.out = Err

\* C6: a blob made under fingerprint A is rejected by decryptData under
\* every fingerprint B # A.
FingerprintBinding ==
  (dec.kind = "blob" /\ ~SameFingerprint) => dec.out = Err

\* A blob was handed to decryptData under another fingerprint and rejected.
OtherFingerprintRejected ==
  /\ dec.kind = "blob"
  /\ ~SameFingerprint
  /\ dec.out = Err

\* The decryptData call of the run ran in an environment that differs from
\* the one of the encryptData call in the user agent, the language or the
\* screen resolution.
OtherEnvironment ==
  /\ dec.kind = "blob"
  /\ EnvTable[dec.env] # EnvTable[encLog[dec.src].env]

\* C23: the device fingerprint depends on each of user agent, language and
\* screen resolution: two environments that differ in any of them have
\* different fingerprints, and a blob encrypted in one does not decrypt in
\* the other.
FingerprintOfEachAttribute ==
  OtherEnvironment => (~SameFingerprint /\ dec.out = Err)

\* The salt and the iv inside blob k of encLog.
SaltOf(k) == Slice(Atob(encLog[k].out.val).val, 0, SALT_LENGTH)

IvOf(k) ==
  Slice(Atob(encLog[k].out.val).val, SALT_LENGTH, SALT_LENGTH + IV_LENGTH)

\* C7: any two encryptData calls (they are on the same plaintext) use
\* different salts and different ivs, and return different blobs.
FreshSaltAndIv ==
  \A i, j \in 1..Len(encLog) :
    i < j => /\ SaltOf(i) # SaltOf(j)
             /\ IvOf(i) # IvOf(j)
             /\ encLog[i].out # encLog[j].out

\* Two encryptData calls on the same plaintext in the same environment.
EncryptedTwice ==
  /\ Len(encLog) >= 2
  /\ encLog[1].env = encLog[2].env
  /\ encLog[1].out.ok /\ encLog[2].out.ok

\* C8: every decryptData call either returns the full original plaintext or
\* raises the decryption error.
AllOrNothing ==
  dec.kind # "none" => (dec.out = Err \/ dec.out = Ok(plain))

\* The part of C8 on malformed input: an input that atob rejects, or whose
\* decoded length is below salt + iv, is rejected.
MalformedRejected ==
  (dec.kind = "raw"
     /\ (~Atob(dec.input).ok
           \/ Len(Atob(dec.input).val) < SALT_LENGTH + IV_LENGTH))
    => dec.out = Err

\* A too short input was rejected.
ShortInputRejected ==
  /\ dec.kind = "raw"
  /\ Atob(dec.input).ok
  /\ Len(Atob(dec.input).val) < SALT_LENGTH + IV_LENGTH
  /\ dec.out = Err

\* ------------------------------------------------------------------------
\* Properties of the key storage and of generateDiagram
\* ------------------------------------------------------------------------
\* The text holds k as a contiguous part.
Contains(text, k) ==
  \E i \in 1..Len(text) - Len(k) + 1 : SubSeq(text, i, i + Len(k) - 1) = k

\* The API keys of the user in the model.
UserKeys == (KeyInputs \ {<<>>}) \cup {StoredKey}

\* C3: no entry of local storage holds an API key of the user in plaintext.
KeysEncryptedAtRest ==
  \A k \in UserKeys :
    ~Contains(storage.plain.val, k) /\ ~Contains(storage.enc.val, k)

\* The value holds a key for one of the providers.
HoldsKey(v) ==
  v.t = "obj"
    /\ \E i \in 1..Len(v.ms) : v.ms[i].k \in Providers /\ Truthy(v.ms[i].v)

\* C4: when decryptData failed on the encrypted entry, generateDiagram loads
\* no key, sends no request and asks for the keys.
NoFallbackAfterDecryptFailure ==
  (gen.loaded /\ gen.decrypt.called /\ ~gen.decrypt.out.ok)
    => /\ ~HoldsKey(gen.userApiKeys)
       /\ requests = <<>>
       /\ toast = "API Keys Required"

\* C5: no request to the analyze-codebase function holds an API key of the
\* user.
NoUserKeyInBackendRequest ==
  \A i \in 1..Len(requests) :
    \A k \in UserKeys : ~Contains(requests[i].body, k)

\* The text is the JSON of a value that holds a key.
SecretIn(text) ==
  \E p \in {JsonParse(text)} : p.ok /\ HoldsKey(p.val)

\* Neither entry of local storage gives a key: the encrypted entry is
\* missing, or not a blob of this environment, or its plaintext holds no key,
\* and the plaintext entry is missing or holds no key.
NoSecretConfigured ==
  /\ ~(gen.decrypt.called /\ gen.decrypt.out.ok
         /\ SecretIn(gen.decrypt.out.val))
  /\ ~(storage.plain.present /\ SecretIn(storage.plain.val))

\* C9: generateDiagram lets no exception escape, whatever the entries of
\* local storage hold, and when they give no key it reports that API keys
\* are required and sends no request.
GenerateNeverRaises ==
  /\ ~gen.uncaught
  /\ (gen.loaded /\ NoSecretConfigured)
       => /\ gen.phase = "done"
          /\ toast = "API Keys Required"
          /\ requests = <<>>

\* generateDiagram ran on an encrypted entry that is no base64 and a
\* plaintext entry that is no JSON, and asked for the keys.
MalformedEntriesDegrade ==
  /\ gen.loaded
  /\ gen.decrypt.called /\ ~gen.decrypt.out.ok
  /\ storage.plain = Present(<<123, 111, 111, 112, 115>>)
  /\ toast = "API Keys Required"
  /\ requests = <<>>

Stopped == hist.last # "start"

\* No session callback is called in the step.
NoCallback ==
  /\ ui'.warnings <= ui.warnings
  /\ ui'.timeouts <= ui.timeouts
  /\ ui'.signedIn = ui.signedIn
  /\ ui'.toast = ui.toast

SuppressedByActivity ==
  [][now - hist.activityAt < WarningThreshold => NoCallback]_vars

\* Monitoring went on for longer than the timeout threshold, with user
\* activity and periodic checks, and no callback was ever called.
ActiveAndNeverWarned ==
  /\ monitor.state = "Monitoring"
  /\ now - monitor.since > TimeoutThreshold
  /\ hist.activityAt > monitor.since
  /\ lastCheck = now
  /\ ui.toast = "none"

\* C13: after user activity that came between a warning and the timeout,
\* onTimeout is not called before the timeout threshold has passed again,
\* counted from that activity, and onWarning is called again by the first
\* check at or after the warning threshold.
ActivityCancelsTimeout ==
  (monitor.state = "Monitoring" /\ hist.resumed) =>
    /\ now - hist.activityAt < TimeoutThreshold => ui.timeouts = 0
    /\ ui.warnings =
         (IF lastCheck - hist.activityAt >= WarningThreshold
            THEN 1 ELSE 0)

\* After such an activity the warning was given a second time.
WarnedAgain ==
  /\ monitor.state = "Monitoring"
  /\ hist.resumed
  /\ lastCheck - hist.activityAt >= WarningThreshold
  /\ ui.warnings = 1
  /\ ui.timeouts = 0

CountedAt(id, t) == SelectSeq(ledger[id], LAMBDA s : InWindow(s, t))

Counted(id) == CountedAt(id, DateNow)

\* What isLockedOut(id) and getRemainingLockoutTime(id) answer now.
Locked(id) == IsLockedOut(failures, id, DateNow).locked

Remaining(id) == GetRemainingLockoutTime(failures, id, DateNow)

\* The handlers that answer whether the account is locked.
Asked == authLast.op \in {"handleAuthFailure", "isAccountLocked"}

\* C15: the handlers answer "locked" exactly when the number of failures of
\* the identifier inside the trailing window is at least maxAttempts: true
\* after maxAttempts recordFailure calls within the window, false after
\* maxAttempts - 1.
LockoutBoundary ==
  /\ Asked =>
       authLast.locked =
         (Len(CountedAt(authLast.id, authLast.at)) >= MaxAttempts)
  /\ \A id \in Identifiers : Locked(id) = (Len(Counted(id)) >= MaxAttempts)

\* The failure that made exactly maxAttempts locked the identifier out.
LockedAtMaxAttempts ==
  /\ authLast.op = "handleAuthFailure"
  /\ authLast.locked
  /\ ~authLast.wasLocked
  /\ Len(ledger[authLast.id]) = MaxAttempts

\* The identifier was locked out by its last recorded failure.
WasLockedOut(id) ==
  /\ Len(ledger[id]) >= MaxAttempts
  /\ Len(CountedAt(id, ledger[id][Len(ledger[id])])) >= MaxAttempts

\* C16: once the lockout window has passed since the last failure of an
\* identifier, isLockedOut is false and getRemainingLockoutTime is 0.
LockoutExpires ==
  \A id \in Identifiers :
    (ledger[id] # <<>>
       /\ DateNow - ledger[id][Len(ledger[id])] >= LockoutWindow) =>
      /\ ~Locked(id)
      /\ Remaining(id) = 0
      /\ (Asked /\ authLast.id = id /\ authLast.at = DateNow) =>
           ~authLast.locked

\* A locked-out identifier was asked for after the window and found free.
LockoutExpired ==
  /\ authLast.op = "isAccountLocked"
  /\ authLast.at = DateNow
  /\ ~authLast.locked
  /\ WasLockedOut(authLast.id)
  /\ Remaining(authLast.id) = 0

NoFailureLost ==
  \A id \in Identifiers :
    /\ Len(SelectSeq(failures[id], LAMBDA s : InWindow(s, DateNow)))
         = Len(Counted(id))
    /\ Len(failures[id]) <= Len(ledger[id])

\* Two failures of one instant are both stored.
DoubleSubmitKept ==
  /\ authLast.op = "handleAuthFailure"
  /\ Len(ledger[authLast.id]) >= 2
  /\ ledger[authLast.id][1] = ledger[authLast.id][2]
  /\ failures[authLast.id] = ledger[authLast.id]

ClearResets ==
  /\ authLast.op = "clearAuthFailures" =>
       /\ failures[authLast.id] = <<>>
       /\ ~Locked(authLast.id)
       /\ Remaining(authLast.id) = 0
  /\ \A id \in Identifiers : Locked(id) => Len(ledger[id]) >= MaxAttempts

\* A locked-out identifier was cleared.
ClearedWhileLocked ==
  /\ authLast.op = "clearAuthFailures"
  /\ authLast.wasLocked
  /\ authLast.at = DateNow

\* The stored failures of id inside the trailing window.
StoredInWindow(id) == SelectSeq(failures[id], LAMBDA s : InWindow(s, DateNow))

\* What one step of the hook does for identifier id.
HookStep(id) ==
  /\ Len(ledger'[id]) = Len(ledger[id]) + 1 =>
       /\ Len(StoredInWindow(id)') = Len(StoredInWindow(id)) + 1
       /\ authLast'.locked = (Len(StoredInWindow(id)') >= MaxAttempts)
       /\ authLast'.locked = Locked(id)'
       /\ \A other \in Identifiers \ {id} :
            /\ failures'[other] = failures[other]
            /\ Locked(other)' = Locked(other)
  /\ (authLast'.op = "isAccountLocked" /\ authLast'.id = id
        /\ ledger' = ledger /\ now' = now) =>
       authLast'.locked = Locked(id)
  /\ (Locked(id) /\ now' = now
        /\ ~(authLast'.op = "clearAuthFailures" /\ authLast'.id = id)) =>
       Locked(id)'

\* C24: handleAuthFailure(email) records exactly one failure for email and
\* no other identifier, and answers true exactly when email is locked out
\* right after, that is when maxAttempts failures are inside the window;
\* isAccountLocked(email) answers the lockout of email; and a locked out
\* email stays locked out until the clock moves on or clearAuthFailures
\* (email) runs, whatever is done for other identifiers.
HandleAuthFailureContract == [][\A id \in Identifiers : HookStep(id)]_vars

\* An identifier is found locked out while another one, with a failure of
\* its own, is not.
LockedBesideFree ==
  /\ authLast.op = "isAccountLocked"
  /\ authLast.locked
  /\ Len(ledger[authLast.id]) = MaxAttempts
  /\ \E other \in Identifiers \ {authLast.id} :
       /\ Len(Counted(other)) = MaxAttempts - 1
       /\ ~Locked(other)

\* ------------------------------------------------------------------------
\* Properties of the analyze-codebase edge function
\* ------------------------------------------------------------------------
\* The request is a POST with a JSON body other than null.
EdgeParsed ==
  /\ edge.method = "POST"
  /\ JsonParse(edge.body).ok
  /\ JsonParse(edge.body).val.t # "null"

KeyAvailable == Truthy(edge.openAIApiKey) \/ Truthy(edge.claudeApiKey)

HasFiles == ~edge.files.error /\ ~edge.files.null /\ edge.files.length > 0

\* The request passed the checks of keys, session id and files.
Validated ==
  /\ EdgeParsed
  /\ KeyAvailable
  /\ Truthy(edge.sessionId)
  /\ HasFiles

Called(provider) == \E i \in 1..Len(edge.calls) : edge.calls[i] = provider

\* C21: for a request that reaches the providers, OpenAI is the first
\* provider called when an OpenAI key is available and is not called
\* otherwise; once the OpenAI block is over, Claude has been called exactly
\* when a Claude key is available and OpenAI gave no diagram (no key, a
\* failed call or empty text); and a failed OpenAI call without a Claude key
\* ends in status 500.
ProviderFallback ==
  /\ Validated =>
       /\ Called("openai") = Truthy(edge.openAIApiKey)
       /\ Called("openai") => edge.calls[1] = "openai"
       /\ Len(edge.calls) <= 2
       /\ edge.phase # "openai" =>
            Called("claude") =
              (Truthy(edge.claudeApiKey) /\ edge.openai # "diagram")
       /\ (edge.openai = "failed" /\ ~Truthy(edge.claudeApiKey)) =>
            (edge.phase = "done" /\ edge.status = 500)
  /\ edge.openai = "diagram" => ~Called("claude")

\* OpenAI failed, Claude was called and gave the diagram.
FellBackToClaude ==
  /\ edge.phase = "done"
  /\ edge.calls = <<"openai", "claude">>
  /\ edge.openai = "failed"
  /\ edge.status = 200

\* The mermaidCode and the fileCount of the response.
ResponseField(name) ==
  IF JsonParse(edge.response).ok
    THEN GetProp(JsonParse(edge.response).val, name).val
  ELSE JUndefined

\* The response has status 200 only for a request with a key, a session id
\* and files for which a provider gave a diagram, and carries the diagram and
\* the number of files.
OkOnlyWithDiagram ==
  edge.status = 200 =>
    /\ KeyAvailable
    /\ Truthy(edge.sessionId)
    /\ HasFiles
    /\ edge.calls # <<>>
    /\ ResponseField(<<109, 101, 114, 109, 97, 105, 100, 67, 111, 100, 101>>).t = "str"
    /\ ResponseField(<<109, 101, 114, 109, 97, 105, 100, 67, 111, 100, 101>>).s # <<>>
    /\ ResponseField(<<109, 101, 114, 109, 97, 105, 100, 67, 111, 100, 101>>) = edge.mermaidCode
    /\ ResponseField(<<102, 105, 108, 101, 67, 111, 117, 110, 116>>) = JNum(edge.files.length)

\* The request misses the keys, the session id or the files.
Incomplete ==
  \/ ~KeyAvailable
  \/ ~Truthy(edge.sessionId)
  \/ (~edge.files.error /\ ~HasFiles)

RejectedUnasked == edge.status = 400 /\ edge.calls = <<>>

\* C26 as stated: every response with status 200 is one with a diagram, and
\* every request that misses keys, session id or files gets status 400
\* without a provider call.
ResponseContract ==
  edge.phase = "done" =>
    /\ OkOnlyWithDiagram
    /\ Incomplete => RejectedUnasked

\* C26 amended: the same for the requests that are no OPTIONS preflight and
\* have a JSON body other than null.
ResponseContractOfPosts ==
  (edge.phase = "done" /\ EdgeParsed) =>
    /\ OkOnlyWithDiagram
    /\ Incomplete => RejectedUnasked

\* A request with two files was answered with status 200.
AnsweredWithDiagram ==
  /\ edge.phase = "done"
  /\ EdgeParsed
  /\ edge.status = 200
  /\ edge.files.length = 2
\* ------------------------------------------------------------------------
\* Properties of the per-user rate limit
\* ------------------------------------------------------------------------

\* The requests of user that were passed to next() among the first n of the
\* log, at instants in (from, to].
PassedIn(user, n, from, to) ==
  {i \in 1..n : /\ limiter.log[i].user = user
                /\ limiter.log[i].status = 200
                /\ limiter.log[i].at > from
                /\ limiter.log[i].at <= to}

PassedTimes(user, from) ==
  LET RECURSIVE times(_)
      times(i) ==
        IF i = 0 THEN <<>>
        ELSE IF i \in PassedIn(user, Len(limiter.log), from, limiter.now)
          THEN Append(times(i - 1), limiter.log[i].at)
        ELSE times(i - 1)
  IN  times(Len(limiter.log))

\* C22: in every trailing interval of windowMs the middleware passes at most
\* max requests of one authenticated user to next(); a request of a user who
\* already has max passed requests in the interval gets 429, no other does;
\* and the stored history holds, inside the window, the passed requests only.
UserRateLimit ==
  \A user \in LimitUsers :
    /\ \A t \in 0..limiter.now :
         Cardinality(PassedIn(user, Len(limiter.log), t - LimitWindowMs, t))
           <= LimitMax
    /\ \A i \in DOMAIN limiter.log :
         limiter.log[i].user = user =>
           (limiter.log[i].status = 429 <=>
              Cardinality(PassedIn(user, i - 1,
                                   limiter.log[i].at - LimitWindowMs,
                                   limiter.log[i].at)) >= LimitMax)
    /\ SelectSeq(limiter.userRequests[user].list,
                 LAMBDA timestamp : timestamp > limiter.now - LimitWindowMs)
         = PassedTimes(user, limiter.now - LimitWindowMs)

\* A user was refused, and passed again once the window had moved on.
RejectedOverLimit ==
  \E i, j \in DOMAIN limiter.log :
    /\ i < j
    /\ limiter.log[i].user = limiter.log[j].user
    /\ limiter.log[i].status = 429
    /\ limiter.log[j].status = 200
\* ------------------------------------------------------------------------
\* Properties of RateLimiter
\* ------------------------------------------------------------------------

\* The attempts of identifier that were recorded inside the trailing window.
AttemptsInWindow(identifier) ==
  SelectSeq(attempts.recorded[identifier],
            LAMBDA time : attempts.now - time < RateWindowMs)

\* C25: whenever at least maxAttempts attempts of an identifier lie inside
\* the trailing window, isRateLimited returns true, getRemainingAttempts
\* returns 0 and getTimeUntilReset returns a value in (0, windowMs], whatever
\* was called before and whatever older attempts are still stored.
RateLimiterConsistent ==
  \A identifier \in RateIdentifiers :
    Len(AttemptsInWindow(identifier)) >= RateMaxAttempts =>
      /\ IsRateLimitedResult(attempts, identifier)
      /\ GetRemainingAttemptsResult(attempts, identifier) = 0
      /\ GetTimeUntilResetResult(attempts, identifier) > 0
      /\ GetTimeUntilResetResult(attempts, identifier) <= RateWindowMs
      /\ (attempts.last.id = identifier /\ attempts.last.at = attempts.now) =>
           CASE attempts.last.op = "isRateLimited" -> attempts.last.result = 1
             [] attempts.last.op = "getRemainingAttempts" ->
                  attempts.last.result = 0
             [] attempts.last.op = "getTimeUntilReset" ->
                  /\ attempts.last.result > 0
                  /\ attempts.last.result <= RateWindowMs
             [] OTHER -> TRUE

\* The two queries that do hold of the limited identifier.
LimitedAndNoneRemaining ==
  \A identifier \in RateIdentifiers :
    Len(AttemptsInWindow(identifier)) >= RateMaxAttempts =>
      /\ IsRateLimitedResult(attempts, identifier)
      /\ GetRemainingAttemptsResult(attempts, identifier) = 0
\* ------------------------------------------------------------------------
\* Properties of the Index page
\* ------------------------------------------------------------------------

\* C27: once getUser() has resolved with a signed-in user, or an auth state
\* change has delivered a user while no session exists, the page eventually
\* has a chat session: sessionId becomes non-null (unless the user signs out
\* before).
SessionAfterSignIn ==
  (page.user # NoUser /\ page.sessionId = NoSession)
    ~> (page.sessionId # NoSession \/ page.user = NoUser)

Loading ==
  \E i \in DOMAIN page.tasks : page.tasks[i].kind \in {"messages", "files"}

\* C28: once every load started by handleSessionSelect has completed, the
\* displayed messages and files are those of the session whose id is
\* sessionId (no load failed, and nothing but session selection touched
\* them).
SelectedSessionShown ==
  (page.selects > 0 /\ ~Loading /\ ~page.loadFailed /\ ~page.edited) =>
    /\ page.messages = page.db.messages[page.sessionId]
    /\ page.uploadedFiles = page.db.files[page.sessionId]
\* ------------------------------------------------------------------------
\* Properties of the Database singleton
\* ------------------------------------------------------------------------

\* C29: since the last disconnect() call, mongoose.connect was invoked at
\* most once and setupEventHandlers registered its handlers at most once,
\* whatever the interleaving of the connect() calls.
AtMostOneConnection ==
  /\ database.invoked <= 1
  /\ database.registered <= 1
\* ------------------------------------------------------------------------
\* Properties of CartProvider
\* ------------------------------------------------------------------------

\* The quantity of product in the cart, 0 when it has no entry.
QuantityOf(product) ==
  IF FindIndex(cart.cartItems, product) = 0 THEN 0
  ELSE cart.cartItems[FindIndex(cart.cartItems, product)].quantity

\* C30: the cart never holds two entries of one product, and once every
\* addToCart call has completed and every state update has been applied,
\* the quantity of each product is the sum of the quantities of its calls.
NoCartUpdateLost ==
  /\ \A i, j \in DOMAIN cart.cartItems :
       cart.cartItems[i].product = cart.cartItems[j].product => i = j
  /\ (cart.inFlight = <<>> /\ cart.rendered = cart.cartItems) =>
       \A product \in Products : QuantityOf(product) = cart.asked[product]

\* The part of C30 that holds: no product has two entries.
OneEntryPerProduct ==
  \A i, j \in DOMAIN cart.cartItems :
    cart.cartItems[i].product = cart.cartItems[j].product => i = j
====
